---- MODULE Spec2Model ----
(***************************************************************************)
(* Model of the skybox tools of CS2KZ-Mapping-Tools.                       *)
(*                                                                         *)
(* Part 1: scripts/skybox_gui_old.py, the dialog-driven converter          *)
(*   main -> select_skybox_files -> ask_vmat_preferences ->                *)
(*   select_output_location -> stitch_skybox -> create_vmat_files.         *)
(* Part 2: scripts/skybox_gui.py, the ImGui front end that stages the      *)
(*   selected files and runs the converter script in a worker thread.      *)
(*                                                                         *)
(* Part 3: utils/update_checker.py, UpdateChecker.check_for_updates and    *)
(*   its throttle.                                                         *)
(*                                                                         *)
(* Strings that the code inspects (file names, patterns, suffixes) are     *)
(* sequences of one-character strings, so that lower(), basename(),        *)
(* splitext(), endswith() and the substring test "pattern in filename"     *)
(* are computed as the code computes them.                                 *)
(*                                                                         *)
(* skybox_gui_old.py uses the names messagebox, VTF_SUPPORT and Parser     *)
(* without defining them; the model reads them as tkinter.messagebox, a    *)
(* module-level boolean and the vtf2img parser, as the calls imply.        *)
(***************************************************************************)
EXTENDS Integers, Sequences, FiniteSets, TLC

VARIABLES
    \* ---- skybox_gui_old.py ----
    pc,              \* position of main()
    file_paths,      \* result of filedialog.askopenfilenames (ids into FilePool)
    native,          \* width,height of the picture stored in each pool file
    ident,           \* outcome of select_skybox_files: kind, dialog contents
    files,           \* dict face -> path, kept in insertion order
    create_skybox,   \* answers of ask_vmat_preferences
    create_moondome,
    images,          \* stitch_skybox: dict face -> loaded image
    base_size,       \* stitch_skybox: edge taken from the first image (0 = None)
    final_image,     \* stitch_skybox: the canvas
    pasted,          \* stitch_skybox: what was pasted, in paste order
    success,         \* first component of stitch_skybox's result
    message,         \* kind of the second component
    atlas_file,      \* the file at output_path
    vmat_files,      \* the two .vmat files next to output_path
    output_path,     \* result of select_output_location (<<>> = None)
    vmat_text,       \* name and content of the .vmat files written
    exit_code,       \* argument of sys.exit (-1 while running)
    \* ---- skybox_gui.py, SkyboxConverterApp ----
    skybox_files,          \* self.skybox_files
    skybox_prefix,         \* self.skybox_prefix
    output_mode,           \* self.output_mode
    output_dir,            \* self.output_dir ("None" or "dir")
    addon_list,            \* self.addon_list
    create_skybox_vmat,    \* the three check boxes
    create_moondome_vmat,
    cleanup_source_files,
    conversion_in_progress,
    conversion_completed,
    show_done_popup,
    status_message,
    worker,                \* position of run_conversion_thread ("none": no thread)
    env,                   \* the environment handed to the converter process
    temp_dir,              \* the staging directory of the running thread
    returncode,            \* result.returncode
    dest_files,            \* files this tool wrote into the output directory
    runs,                  \* conversions that have ended so far
    threads,               \* run_conversion_thread threads that are alive
    source_files,          \* the pool files that are on disk
    \* ---- utils/update_checker.py, UpdateChecker ----
    now,                   \* time.time(), in seconds
    last_check_time,       \* self.last_check_time (-1 = None)
    update_available,      \* self.update_available
    latest_download_url,   \* self.latest_download_url (<<>> = None; a url is the asset's name)
    latest_version,        \* self.latest_version (-1 = None)
    current_version,       \* self.current_version
    is_console_version,    \* self.is_console_version
    calls,                 \* calls of check_for_updates so far
    fetches,               \* calls of urlopen so far
    returned,              \* what the last call of check_for_updates returned
    release_found,         \* the last answer of the server held a newer release
                           \* with an asset of the running build type
    \* ---- utils/theme_manager.py, ThemeManager ----
    settings_file,         \* the file self.settings_file on disk
    last_mtime,            \* self.last_mtime
    current_theme,         \* self.current_theme
    theme_calls,           \* calls of ThemeManager.check_for_updates so far
    theme_changed,         \* what the last of these calls returned
    settings_touched,      \* the file was written or removed since that call
    \* ---- scripts/S2V-AUL.py ----
    aul_pc,                \* where main is
    remote_version,        \* main's remote_version (<<>> = None)
    local_version,         \* main's local_version
    installed,             \* what download_and_install returned ("none" = not called)
    app_launched,          \* subprocess.Popen started the viewer
    aul_exit,              \* the status main exited with (-1 = still running)
    app_executable,        \* the file APP_EXECUTABLE
    pywin32,               \* win32api was imported
    version_file,          \* the file cs2kz_versions.txt
    download_flag,         \* the file .s2v_downloading exists
    \* ---- scripts/sounds.py, the preview cache ----
    cache_dir,             \* the directory Sounds/preview and its entries
    cache_args,            \* the arguments of the last cleanup_preview_cache
    cache_error,           \* the error that call met ("none" if it met none)
    cache_calls            \* calls of cleanup_preview_cache so far

vars_old == << pc, file_paths, native, ident, files, create_skybox,
               create_moondome, images, base_size, final_image, pasted,
               success, message, atlas_file, vmat_files, output_path,
               vmat_text, exit_code >>

vars_gui == << skybox_files, skybox_prefix, output_mode, output_dir, addon_list,
               create_skybox_vmat, create_moondome_vmat, cleanup_source_files,
               conversion_in_progress, conversion_completed, show_done_popup,
               status_message, worker, env, temp_dir, returncode, dest_files,
               runs, threads, source_files >>

vars_uc == << now, last_check_time, update_available, latest_download_url,
              latest_version, current_version, is_console_version, calls,
              fetches, returned, release_found >>

\* what skybox_gui_old.py and what skybox_gui.py leave alone
vars_tm == << settings_file, last_mtime, current_theme, theme_calls,
              theme_changed, settings_touched >>

vars_aul == << aul_pc, remote_version, local_version, installed, app_launched,
               aul_exit, app_executable, pywin32, version_file, download_flag >>

vars_cache == << cache_dir, cache_args, cache_error, cache_calls >>

\* the tools modelled after the skybox tools and the update checker
vars_rest == << vars_tm, vars_aul, vars_cache >>

\* what skybox_gui_old.py, skybox_gui.py, update_checker.py and
\* theme_manager.py leave alone
vars_not_old == << vars_gui, vars_uc, vars_rest >>
vars_not_gui == << vars_old, vars_uc, vars_rest >>
vars_not_uc == << vars_old, vars_gui, vars_rest >>
vars_not_tm == << vars_old, vars_gui, vars_uc, vars_aul, vars_cache >>
vars_not_aul == << vars_old, vars_gui, vars_uc, vars_tm, vars_cache >>
vars_not_cache == << vars_old, vars_gui, vars_uc, vars_tm, vars_aul >>

vars == << vars_old, vars_gui, vars_uc, vars_rest >>

-----------------------------------------------------------------------------
(* Bounds of the model *)

\* largest width or height of a source picture
MaxEdge == 2

\* how many of the six pictures may differ from the common square size
MaxOddFaces == 1

-----------------------------------------------------------------------------
(* Strings *)

UPPERCASE == <<"A","B","C","D","E","F","G","H","I","J","K","L","M","N","O","P","Q","R","S","T","U","V","W","X","Y","Z">>
LOWERCASE == <<"a","b","c","d","e","f","g","h","i","j","k","l","m","n","o","p","q","r","s","t","u","v","w","x","y","z">>

\* str.lower() on one character
LowerChar(c) ==
    IF \E i \in 1..Len(UPPERCASE) : UPPERCASE[i] = c
    THEN LOWERCASE[CHOOSE i \in 1..Len(UPPERCASE) : UPPERCASE[i] = c]
    ELSE c

\* str.lower()
lower(s) == [i \in 1..Len(s) |-> LowerChar(s[i])]

\* os.path.basename: what follows the last separator
basename(path) ==
    LET seps == {i \in 1..Len(path) : path[i] = "/"}
        last == IF seps = {} THEN 0 ELSE CHOOSE i \in seps : \A j \in seps : j <= i
    IN  SubSeq(path, last + 1, Len(path))

Max(S) == CHOOSE x \in S : \A y \in S : y <= x

\* os.path.splitext(name)[0]: cut at the last dot that follows a character
\* other than a dot
splitext_root(name) ==
    LET dots == {i \in 2..Len(name) :
                    name[i] = "." /\ \E j \in 1..(i - 1) : name[j] # "."}
    IN  IF dots = {} THEN name ELSE SubSeq(name, 1, Max(dots) - 1)

\* os.path.dirname: what precedes the last separator
dirname(path) ==
    LET seps == {i \in 1..Len(path) : path[i] = "/"}
    IN  IF seps = {} THEN <<>> ELSE SubSeq(path, 1, Max(seps) - 1)

\* the substring test "pattern in filename"
Contains(pattern, filename) ==
    \E i \in 1..(Len(filename) - Len(pattern) + 1) :
        SubSeq(filename, i, i + Len(pattern) - 1) = pattern

\* str.endswith
endswith(s, suffix) ==
    /\ Len(suffix) <= Len(s)
    /\ SubSeq(s, Len(s) - Len(suffix) + 1, Len(s)) = suffix

-----------------------------------------------------------------------------
(* Module constants of skybox_gui_old.py *)

TARGET_SLOTS == <<"up", "left", "front", "right", "back", "down">>

Faces == {TARGET_SLOTS[i] : i \in 1..Len(TARGET_SLOTS)}

\* a table that takes every target slot from the face of the same name
DEFAULT_TRANSFORMS_Identity(target_slot) ==
    [source |-> target_slot, rotation |-> 0, flip |-> "None"]

\* DEFAULT_TRANSFORMS: target slot -> source face (rotation 0, no flip for all)
DEFAULT_TRANSFORMS(target_slot) ==
    CASE target_slot = "up"    -> [source |-> "up",    rotation |-> 0, flip |-> "None"]
      [] target_slot = "down"  -> [source |-> "down",  rotation |-> 0, flip |-> "None"]
      [] target_slot = "left"  -> [source |-> "back",  rotation |-> 0, flip |-> "None"]
      [] target_slot = "front" -> [source |-> "right", rotation |-> 0, flip |-> "None"]
      [] target_slot = "right" -> [source |-> "front", rotation |-> 0, flip |-> "None"]
      [] target_slot = "back"  -> [source |-> "left",  rotation |-> 0, flip |-> "None"]

\* face_patterns inside select_skybox_files
face_patterns(face) ==
    CASE face = "up" ->
        << <<"_","u","p",".">>, <<"u","p",".">>, <<"_","u","p","_">>, <<"u","p","_">>,
           <<"_","p","z",".">>, <<"p","z",".">>, <<"_","p","z","_">>, <<"p","z","_">> >>
      [] face = "down" ->
        << <<"_","d","o","w","n",".">>, <<"d","o","w","n",".">>, <<"_","d","o","w","n","_">>, <<"d","o","w","n","_">>,
           <<"_","d","n",".">>, <<"d","n",".">>, <<"_","d","n","_">>, <<"d","n","_">>,
           <<"_","n","z",".">>, <<"n","z",".">>, <<"_","n","z","_">>, <<"n","z","_">> >>
      [] face = "left" ->
        << <<"_","l","e","f","t",".">>, <<"l","e","f","t",".">>, <<"_","l","e","f","t","_">>, <<"l","e","f","t","_">>,
           <<"_","l","f",".">>, <<"l","f",".">>, <<"_","l","f","_">>, <<"l","f","_">>,
           <<"_","n","x",".">>, <<"n","x",".">>, <<"_","n","x","_">>, <<"n","x","_">> >>
      [] face = "right" ->
        << <<"_","r","i","g","h","t",".">>, <<"r","i","g","h","t",".">>, <<"_","r","i","g","h","t","_">>, <<"r","i","g","h","t","_">>,
           <<"_","r","t",".">>, <<"r","t",".">>, <<"_","r","t","_">>, <<"r","t","_">>,
           <<"_","p","x",".">>, <<"p","x",".">>, <<"_","p","x","_">>, <<"p","x","_">> >>
      [] face = "front" ->
        << <<"_","f","r","o","n","t",".">>, <<"f","r","o","n","t",".">>, <<"_","f","r","o","n","t","_">>, <<"f","r","o","n","t","_">>,
           <<"_","f","t",".">>, <<"f","t",".">>, <<"_","f","t","_">>, <<"f","t","_">>,
           <<"_","n","y",".">>, <<"n","y",".">>, <<"_","n","y","_">>, <<"n","y","_">> >>
      [] face = "back" ->
        << <<"_","b","a","c","k",".">>, <<"b","a","c","k",".">>, <<"_","b","a","c","k","_">>, <<"b","a","c","k","_">>,
           <<"_","b","k",".">>, <<"b","k",".">>, <<"_","b","k","_">>, <<"b","k","_">>,
           <<"_","p","y",".">>, <<"p","y",".">>, <<"_","p","y","_">>, <<"p","y","_">> >>

-----------------------------------------------------------------------------
(* The files the user can pick in the dialog.  All sit in one directory    *)
(* whose name itself contains a pattern of "up".                           *)

FilePool == <<
    <<"p","z","_","/","s","k","y","_","u","p",".","p","n","g">>,
    <<"p","z","_","/","s","k","y","_","l","e","f","t",".","p","n","g">>,
    <<"p","z","_","/","s","k","y","_","f","r","o","n","t",".","p","n","g">>,
    <<"p","z","_","/","s","k","y","_","r","t",".","v","t","f">>,
    <<"p","z","_","/","s","k","y","_","b","k",".","p","n","g">>,
    <<"p","z","_","/","s","k","y","_","d","n",".","p","n","g">>,
    <<"p","z","_","/","s","k","y","_","t","o","p","s","i","d","e",".","p","n","g">>,
    <<"p","z","_","/","S","K","Y","_","U","P","_","2",".","P","N","G">>,
    <<"p","z","_","/","u","p",".","p","n","g">> >>

FileIds == 1..Len(FilePool)

\* the files offered to the dialog of skybox_gui_old.py
DialogFiles == 1..8

\* the six files of a conventionally named set
StandardSet == 1..6

Range(seq) == {seq[i] : i \in 1..Len(seq)}

-----------------------------------------------------------------------------
(* select_skybox_files, lines 78-136 *)

\* line 107: any(pattern in filename for pattern in patterns)
MatchesFace(face, filename) ==
    \E k \in 1..Len(face_patterns(face)) : Contains(face_patterns(face)[k], filename)

\* the inner loop of lines 94-117 without the break of line 117: the last
\* slot whose patterns match
RECURSIVE FirstMatch_NoBreak(_, _)
FirstMatch_NoBreak(filename, i) ==
    IF i > Len(TARGET_SLOTS) THEN "none"
    ELSE LET later == FirstMatch_NoBreak(filename, i + 1)
         IN  IF later # "none" THEN later
             ELSE IF MatchesFace(TARGET_SLOTS[i], filename) THEN TARGET_SLOTS[i]
             ELSE "none"

\* lines 94-117, the inner loop: the first slot of TARGET_SLOTS from position
\* i on whose patterns match, "none" when the loop ends without a break
RECURSIVE FirstMatch(_, _)
FirstMatch(filename, i) ==
    IF i > Len(TARGET_SLOTS) THEN "none"
    ELSE IF MatchesFace(TARGET_SLOTS[i], filename) THEN TARGET_SLOTS[i]
    ELSE FirstMatch(filename, i + 1)

\* line 91: filename = os.path.basename(file_path).lower()
FilenameOf(fp) == lower(basename(FilePool[fp]))

\* lines 91-117 for every file of the pool (the outcome depends on the name
\* only; the table is evaluated once)
FirstMatchOf == [fp \in FileIds |-> FirstMatch(FilenameOf(fp), 1)]

\* "face in files" for the ordered dict
HasFace(fs, face) == \E i \in 1..Len(fs) : fs[i][1] = face

\* files[face]
FileOfFace(fs, face) == fs[CHOOSE i \in 1..Len(fs) : fs[i][1] = face][2]

NoIdent == [kind |-> "none", files |-> <<>>, face |-> "none",
            missing |-> <<>>, unmatched |-> <<>>]

\* MatchStep without the "face in files" test: a later file replaces the
\* earlier one of the same face
MatchStep_Overwrite(st, fp) ==
    IF st.kind # "matching" THEN st
    ELSE LET face == FirstMatchOf[fp] IN
         IF face = "none"
         THEN [st EXCEPT !.unmatched = Append(@, basename(FilePool[fp]))]
         ELSE IF HasFace(st.files, face)
              THEN [st EXCEPT !.files =
                        [i \in 1..Len(st.files) |->
                            IF st.files[i][1] = face THEN <<face, fp>> ELSE st.files[i]]]
              ELSE [st EXCEPT !.files = Append(@, <<face, fp>>)]

\* MatchStep that gives up at the first file matching no face
MatchStep_StopAtUnmatched(st, fp) ==
    IF st.kind # "matching" THEN st
    ELSE LET face == FirstMatchOf[fp] IN
         IF face = "none"
         THEN [st EXCEPT !.unmatched = Append(@, basename(FilePool[fp])),
                         !.kind = "incomplete"]
         ELSE IF HasFace(st.files, face)
              THEN [st EXCEPT !.kind = "duplicate", !.face = face]
              ELSE [st EXCEPT !.files = Append(@, <<face, fp>>)]

\* one iteration of the loop of lines 90-120; kind "duplicate" is the
\* "Duplicate Face" dialog followed by return None
MatchStep(st, fp) ==
    IF st.kind # "matching" THEN st
    ELSE LET face == FirstMatchOf[fp] IN
         IF face = "none"
         THEN [st EXCEPT !.unmatched = Append(@, basename(FilePool[fp]))]
         ELSE IF HasFace(st.files, face)
              THEN [st EXCEPT !.kind = "duplicate", !.face = face]
              ELSE [st EXCEPT !.files = Append(@, <<face, fp>>)]

\* the loop of lines 90-120 over file_paths
RECURSIVE MatchAll(_, _, _)
MatchAll(st, paths, i) ==
    IF i > Len(paths) THEN st
    ELSE MatchAll(MatchStep(st, paths[i]), paths, i + 1)

\* CheckAllMatched without the count of line 123
CheckAllMatched_NoCount(st) ==
    IF st.kind = "duplicate" THEN [st EXCEPT !.files = <<>>]
    ELSE [st EXCEPT !.kind = "ok"]

\* CheckAllMatched with the test of line 124 inverted
CheckAllMatched_Inverted(st) ==
    IF st.kind = "duplicate" THEN [st EXCEPT !.files = <<>>]
    ELSE IF Len(st.files) # 6
         THEN [st EXCEPT !.kind = "incomplete",
                         !.missing = SelectSeq(TARGET_SLOTS, LAMBDA f : HasFace(st.files, f)),
                         !.files = <<>>]
         ELSE [st EXCEPT !.kind = "ok"]

\* lines 123-136: the check after the loop
CheckAllMatched(st) ==
    IF st.kind = "duplicate" THEN [st EXCEPT !.files = <<>>]
    ELSE IF Len(st.files) # 6
         THEN [st EXCEPT !.kind = "incomplete",
                         !.missing = SelectSeq(TARGET_SLOTS, LAMBDA f : ~HasFace(st.files, f)),
                         !.files = <<>>]
         ELSE [st EXCEPT !.kind = "ok"]

\* the whole function; on every failure the returned value is None (files
\* empty) and the other fields hold what the error dialog showed
select_skybox_files(paths) ==
    IF Len(paths) = 0 THEN [NoIdent EXCEPT !.kind = "cancelled"]
    ELSE IF Len(paths) # 6 THEN [NoIdent EXCEPT !.kind = "invalid_selection"]
    ELSE CheckAllMatched(MatchAll([NoIdent EXCEPT !.kind = "matching"], paths, 1))

-----------------------------------------------------------------------------
(* stitch_skybox, lines 335-414.  A picture is its size and its content;  *)
(* the content of a source picture is the id of the file it was read from, *)
(* 0 is the transparent pixel (0,0,0,0).                                   *)

NoImages == [f \in {} |-> 0]

NoCanvas == [size |-> <<0, 0>>, px |-> [p \in {} |-> 0]]

\* lines 346-355: Image.open(path).convert("RGBA") or the VTF parser
LoadImage(fp) == [size |-> native[fp], content |-> fp]

\* line 346: path.lower().endswith('.vtf'), for every file of the pool
VtfFiles == {fp \in FileIds : endswith(lower(FilePool[fp]), <<".", "v", "t", "f">>)}

IsVtf(fp) == fp \in VtfFiles

\* lines 344-361 when no load raises: the dict images
LoadedImages(fs) ==
    [face \in {fs[i][1] : i \in 1..Len(fs)} |-> LoadImage(FileOfFace(fs, face))]

\* EdgeOf reading the height, img.size[1]
EdgeOf_Height(img) == img.size[2]

\* line 361: base_size = img.size[0], taken from one image
EdgeOf(img) == img.size[1]

\* lines 342, 360-361: the edge of the first image of files.items(); 0 is None
BaseSizeOf(fs) == IF Len(fs) = 0 THEN 0 ELSE EdgeOf(LoadImage(fs[1][2]))

\* line 366: Image.new('RGBA', (base_size * 4, base_size * 3), (0, 0, 0, 0))
NewCanvas(base) ==
    [size |-> <<base * 4, base * 3>>,
     px   |-> [p \in (0..(base * 4 - 1)) \X (0..(base * 3 - 1)) |-> 0]]

\* lines 369-376
COORDS(slot, base) ==
    CASE slot = "up"    -> <<base * 1, base * 0>>
      [] slot = "left"  -> <<base * 0, base * 1>>
      [] slot = "front" -> <<base * 1, base * 1>>
      [] slot = "right" -> <<base * 2, base * 1>>
      [] slot = "back"  -> <<base * 3, base * 1>>
      [] slot = "down"  -> <<base * 1, base * 2>>

\* lines 389-390: resize only when the width differs from base_size
ResizeToBase(img, base) ==
    IF img.size[1] # base THEN [img EXCEPT !.size = <<base, base>>] ELSE img

\* lines 383-398: the buffer pasted for target_slot (rotation 0 and no flip
\* leave it as it is)
BufferFor(target_slot, imgs, base) ==
    ResizeToBase(imgs[DEFAULT_TRANSFORMS(target_slot).source], base)

\* line 402: Image.paste without mask overwrites the box, clipped to the canvas
Paste(canvas, img, position) ==
    [canvas EXCEPT !.px =
        [p \in DOMAIN canvas.px |->
            IF /\ position[1] <= p[1] /\ p[1] < position[1] + img.size[1]
               /\ position[2] <= p[2] /\ p[2] < position[2] + img.size[2]
            THEN img.content
            ELSE canvas.px[p]]]

\* lines 381-404: the paste loop from position i of TARGET_SLOTS on
RECURSIVE PasteFrom(_, _, _, _)
PasteFrom(canvas, imgs, base, i) ==
    IF i > Len(TARGET_SLOTS) THEN canvas
    ELSE PasteFrom(Paste(canvas, BufferFor(TARGET_SLOTS[i], imgs, base),
                         COORDS(TARGET_SLOTS[i], base)),
                   imgs, base, i + 1)

\* lines 363-404
Compose(imgs, base) == PasteFrom(NewCanvas(base), imgs, base, 1)

\* the buffers handed to paste, in paste order
PastedBuffers(imgs, base) ==
    [i \in 1..Len(TARGET_SLOTS) |->
        [slot     |-> TARGET_SLOTS[i],
         size     |-> BufferFor(TARGET_SLOTS[i], imgs, base).size,
         content  |-> BufferFor(TARGET_SLOTS[i], imgs, base).content,
         position |-> COORDS(TARGET_SLOTS[i], base)]]

\* lines 386: images[source_face] raises KeyError when a source face is absent
AllSourcesLoaded(imgs) ==
    \A i \in 1..Len(TARGET_SLOTS) :
        DEFAULT_TRANSFORMS(TARGET_SLOTS[i]).source \in DOMAIN imgs

-----------------------------------------------------------------------------
(* Inputs of a run of skybox_gui_old.py *)

Dims == (1..MaxEdge) \X (1..MaxEdge)

\* the dialog returns distinct paths: nothing, one file, or six files
Selections ==
    {<<>>}
    \cup {<<f>> : f \in DialogFiles}
    \cup {s \in [1..6 -> DialogFiles] : \A i, j \in 1..6 : s[i] = s[j] => i = j}

\* the standard set, any file first, the others in pool order
FirstFileOrderings ==
    {s \in [1..6 -> StandardSet] :
        /\ \A i, j \in 1..6 : s[i] = s[j] => i = j
        /\ \A i, j \in 2..6 : i < j => s[i] < s[j]}

\* every picture edge by edge, at most MaxOddFaces pictures of another shape
SizeAssignments ==
    UNION {
        UNION {
            {[f \in FileIds |-> IF f \in odd THEN shape[f] ELSE <<edge, edge>>] :
                shape \in [odd -> Dims \ {<<edge, edge>>}]} :
            odd \in {o \in SUBSET StandardSet : Cardinality(o) <= MaxOddFaces}} :
        edge \in 1..MaxEdge}

\* what the user enters in the dialog of select_output_location
OutputPaths ==
    { <<"o","/","s","k","y","b","o","x","_","c","r","o","s","s",".","p","n","g">>,
      <<"o",".","d","/","a",".","b",".","p","n","g">>,
      <<"c",".","j","p","g">> }

\* no file
NoFile == [dir |-> <<>>, name |-> <<>>, content |-> <<>>]

NoVmatText == [k \in {"skybox", "moondome"} |-> NoFile]

\* no settings file
NoSettings == [exists |-> FALSE, content |-> "empty", mtime |-> 0]

\* no ThemeManager was made
ThemeManagerNotStarted ==
    /\ settings_file = NoSettings
    /\ last_mtime = 0
    /\ current_theme = "grey"
    /\ theme_calls = 0
    /\ theme_changed = FALSE
    /\ settings_touched = FALSE

\* no executable of the viewer, no version file
NoExecutable == [exists |-> FALSE, product_version |-> <<>>]
NoVersionFile == [exists |-> FALSE, entries |-> {}]

\* S2V-AUL.py was not started
LauncherNotStarted ==
    /\ aul_pc = "none"
    /\ remote_version = <<>>
    /\ local_version = <<>>
    /\ installed = "none"
    /\ app_launched = FALSE
    /\ aul_exit = -1
    /\ app_executable = NoExecutable
    /\ pywin32 = FALSE
    /\ version_file = NoVersionFile
    /\ download_flag = FALSE

\* no preview cache, cleanup_preview_cache never called
NoCacheArgs == [max_files |-> 0, make_room_for_new |-> FALSE]

CacheNotStarted ==
    /\ cache_dir = [exists |-> FALSE, entries |-> {}]
    /\ cache_args = NoCacheArgs
    /\ cache_error = "none"
    /\ cache_calls = 0

\* none of the other tools was started
RestNotStarted ==
    /\ ThemeManagerNotStarted
    /\ LauncherNotStarted
    /\ CacheNotStarted

\* no UpdateChecker was made
UpdateCheckerNotStarted ==
    /\ now = 0
    /\ last_check_time = -1
    /\ update_available = FALSE
    /\ latest_download_url = <<>>
    /\ latest_version = -1
    /\ current_version = 0
    /\ is_console_version = FALSE
    /\ calls = 0
    /\ fetches = 0
    /\ returned = FALSE
    /\ release_found = FALSE

\* no environment built, no staging directory created
NoEnv == [prefix |-> <<>>, create_skybox_vmat |-> FALSE, create_moondome_vmat |-> FALSE,
          cleanup_source_files |-> FALSE, output_dir |-> "None", files |-> <<>>]

NoTemp == [exists |-> FALSE, staged |-> {}, skybox |-> {}]

\* skybox_gui.py is not running
GuiNotStarted ==
    /\ skybox_files = <<>>
    /\ skybox_prefix = <<>>
    /\ output_mode = "custom"
    /\ output_dir = "None"
    /\ addon_list = <<>>
    /\ create_skybox_vmat = FALSE
    /\ create_moondome_vmat = FALSE
    /\ cleanup_source_files = FALSE
    /\ conversion_in_progress = FALSE
    /\ conversion_completed = FALSE
    /\ show_done_popup = FALSE
    /\ status_message = ""
    /\ worker = "none"
    /\ env = NoEnv
    /\ temp_dir = NoTemp
    /\ returncode = -1
    /\ dest_files = {}
    /\ runs = 0
    /\ threads = 0
    /\ source_files = FileIds

\* main is entered: any selection, six pictures of one pixel
Init ==
    /\ pc = "select"
    /\ file_paths \in Selections
    /\ native = [f \in FileIds |-> <<1, 1>>]
    /\ ident = NoIdent
    /\ files = <<>>
    /\ create_skybox = FALSE
    /\ create_moondome = FALSE
    /\ images = NoImages
    /\ base_size = 0
    /\ final_image = NoCanvas
    /\ pasted = <<>>
    /\ success = FALSE
    /\ message = "none"
    /\ atlas_file = "absent"
    /\ vmat_files = [k \in {"skybox", "moondome"} |-> "absent"]
    /\ output_path = <<>>
    /\ vmat_text = NoVmatText
    /\ exit_code = -1
    /\ GuiNotStarted
    /\ UpdateCheckerNotStarted
    /\ RestNotStarted

-----------------------------------------------------------------------------
(* main, lines 416-473 *)

\* lines 419-421: files = select_skybox_files(); if not files: sys.exit(1)
SelectSkyboxFiles ==
    /\ pc = "select"
    /\ ident' = select_skybox_files(file_paths)
    /\ files' = ident'.files
    /\ IF Len(files') = 0
       THEN pc' = "exit" /\ exit_code' = 1
       ELSE pc' = "prefs" /\ exit_code' = exit_code
    /\ UNCHANGED << output_path, vmat_text, file_paths, native, create_skybox, create_moondome, images,
                    base_size, final_image, pasted, success, message,
                    atlas_file, vmat_files >>
    /\ UNCHANGED vars_not_old

\* line 424 and ask_vmat_preferences, lines 138-168: two yes/no dialogs
AskVmatPreferences ==
    /\ pc = "prefs"
    /\ create_skybox' \in BOOLEAN
    /\ create_moondome' \in BOOLEAN
    /\ pc' = "output"
    /\ UNCHANGED << output_path, vmat_text, file_paths, native, ident, files, images, base_size,
                    final_image, pasted, success, message, atlas_file,
                    vmat_files, exit_code >>
    /\ UNCHANGED vars_not_old

\* lines 427-430 and select_output_location, lines 170-199
SelectOutputLocation ==
    /\ pc = "output"
    /\ \E file_path \in OutputPaths \cup {<<>>} :
          /\ output_path' = file_path
          /\ IF file_path # <<>>
             THEN pc' = "load" /\ exit_code' = exit_code
             ELSE pc' = "exit" /\ exit_code' = 0
    /\ UNCHANGED << vmat_text, file_paths, native, ident, files, create_skybox,
                    create_moondome, images, base_size, final_image, pasted,
                    success, message, atlas_file, vmat_files >>
    /\ UNCHANGED vars_not_old

\* the outcome of the load loop of lines 344-361 when VTF_SUPPORT is
\* vtf_support and the decoder raises at the fail_at-th file (0: never)
LoadOutcome(fs, vtf_support, fail_at) ==
    LET blocked == IF vtf_support THEN {}
                   ELSE {i \in 1..Len(fs) : IsVtf(fs[i][2])}
    IN  IF \E i \in blocked : fail_at = 0 \/ i <= fail_at THEN "import_error"
        ELSE IF fail_at # 0 THEN "error"
        ELSE "ok"

\* stitch_skybox, lines 341-361: load every file of files.items()
StitchLoad ==
    /\ pc = "load"
    /\ \E vtf_support \in BOOLEAN, fail_at \in 0..Len(files) :
          LET outcome == LoadOutcome(files, vtf_support, fail_at) IN
          IF outcome = "ok"
          THEN /\ images' = LoadedImages(files)
               /\ base_size' = BaseSizeOf(files)
               /\ pc' = "paste"
               /\ UNCHANGED << success, message >>
          ELSE /\ success' = FALSE
               /\ message' = outcome
               /\ pc' = "vmat"
               /\ UNCHANGED << images, base_size >>
    /\ UNCHANGED << output_path, vmat_text, file_paths, native, ident, files, create_skybox,
                    create_moondome, final_image, pasted, atlas_file,
                    vmat_files, exit_code >>
    /\ UNCHANGED vars_not_old

\* stitch_skybox, lines 363-404: the canvas and the six pastes; base_size None
\* or a missing source face raises and ends in the handler of line 413
StitchPaste ==
    /\ pc = "paste"
    /\ IF base_size # 0 /\ AllSourcesLoaded(images)
       THEN /\ final_image' = Compose(images, base_size)
            /\ pasted' = PastedBuffers(images, base_size)
            /\ pc' = "save"
            /\ UNCHANGED << success, message >>
       ELSE /\ success' = FALSE
            /\ message' = "error"
            /\ pc' = "vmat"
            /\ UNCHANGED << final_image, pasted >>
    /\ UNCHANGED << output_path, vmat_text, file_paths, native, ident, files, create_skybox,
                    create_moondome, images, base_size, atlas_file,
                    vmat_files, exit_code >>
    /\ UNCHANGED vars_not_old

\* stitch_skybox, lines 406-414: final_image.save; a failing save leaves
\* no file or a truncated one
StitchSave ==
    /\ pc = "save"
    /\ \E written \in {"complete", "partial", "absent"} :
          /\ atlas_file' = written
          /\ success' = (written = "complete")
          /\ message' = IF written = "complete" THEN "saved" ELSE "error"
    /\ pc' = "vmat"
    /\ UNCHANGED << output_path, vmat_text, file_paths, native, ident, files, create_skybox,
                    create_moondome, images, base_size, final_image, pasted,
                    vmat_files, exit_code >>
    /\ UNCHANGED vars_not_old

\* the test of line 437 dropped
ShouldCreateVmat_Always == TRUE

\* line 437: if success
ShouldCreateVmat == success

\* line 290 with base_name in the place of png_filename
sky_texture_path_BaseName(path) ==
    <<"m","a","t","e","r","i","a","l","s","/","s","k","y","b","o","x","/">> \o splitext_root(basename(path))

\* line 290: sky_texture_path = f"materials/skybox/{png_filename}"
sky_texture_path(path) ==
    <<"m","a","t","e","r","i","a","l","s","/","s","k","y","b","o","x","/">> \o basename(path)

\* get_ldr_vmat_content, lines 201-224, and get_moondome_vmat_content, lines
\* 226-277: the fixed text before the texture path, the path, the fixed text
\* after it
get_ldr_vmat_content(texture_path) ==
    <<"// THIS FILE IS AUTO-GENERATED (STANDARD SKYBOX) ... SkyTexture \"">>
        \o texture_path \o <<"\" ... VariableState { \"Texture\" { } } }">>

get_moondome_vmat_content(texture_path) ==
    <<"// THIS FILE IS AUTO-GENERATED (MOONDOME) ... TextureCubeMap \"">>
        \o texture_path \o <<"\" ... VariableState { ... } }">>

\* lines 295 and 301: the file name of a descriptor
VmatName(path, k) ==
    (IF k = "skybox" THEN <<"s","k","y","b","o","x","_">> ELSE <<"m","o","o","n","d","o","m","e","_">>)
        \o splitext_root(basename(path)) \o <<".","v","m","a","t">>

\* lines 295-297 and 301-303: the file a write leaves behind; a write that
\* raised on the way leaves the file empty
VmatWritten(path, k, written) ==
    IF written \in {"complete", "partial"}
    THEN [dir     |-> dirname(path),
          name    |-> VmatName(path, k),
          content |-> IF written = "partial" THEN <<>>
                      ELSE IF k = "skybox"
                           THEN get_ldr_vmat_content(sky_texture_path(path))
                           ELSE get_moondome_vmat_content(sky_texture_path(path))]
    ELSE NoFile

\* create_vmat_files with the moondome block inside the sky block's test
create_vmat_files_Nested(want_skybox, want_moondome, r1, r2) ==
    [k \in {"skybox", "moondome"} |->
        IF k = "skybox"
        THEN IF want_skybox THEN r1 ELSE "absent"
        ELSE IF want_skybox /\ want_moondome /\ r1 = "complete" THEN r2
             ELSE "absent"]

\* create_vmat_files, lines 279-311: the sky file, then the moondome file; the
\* first failing write ends in the handler of line 308.  r1 and r2 are what
\* the two writes come to: "complete", "partial" (raised after the file was
\* made) or "failed" (raised before); "absent" is a file never asked for
create_vmat_files(want_skybox, want_moondome, r1, r2) ==
    [k \in {"skybox", "moondome"} |->
        IF k = "skybox"
        THEN IF want_skybox THEN r1 ELSE "absent"
        ELSE IF want_moondome /\ ~(want_skybox /\ r1 # "complete") THEN r2
             ELSE "absent"]

\* lines 435-438
MainCreateVmat ==
    /\ pc = "vmat"
    /\ IF ShouldCreateVmat
       THEN \E r1, r2 \in {"complete", "partial", "failed"} :
               /\ vmat_files' = create_vmat_files(create_skybox, create_moondome, r1, r2)
               /\ vmat_text' = [k \in {"skybox", "moondome"} |->
                                   VmatWritten(output_path, k, vmat_files'[k])]
       ELSE UNCHANGED << vmat_files, vmat_text >>
    /\ pc' = "result"
    /\ UNCHANGED << output_path, file_paths, native, ident, files, create_skybox,
                    create_moondome, images, base_size, final_image, pasted,
                    success, message, atlas_file, exit_code >>
    /\ UNCHANGED vars_not_old

\* lines 440-473: the result dialog and sys.exit(0 if success else 1)
ShowResult ==
    /\ pc = "result"
    /\ pc' = "exit"
    /\ exit_code' = IF success THEN 0 ELSE 1
    /\ UNCHANGED << output_path, vmat_text, file_paths, native, ident, files, create_skybox,
                    create_moondome, images, base_size, final_image, pasted,
                    success, message, atlas_file, vmat_files >>
    /\ UNCHANGED vars_not_old

Next ==
    \/ SelectSkyboxFiles
    \/ AskVmatPreferences
    \/ SelectOutputLocation
    \/ StitchLoad
    \/ StitchPaste
    \/ StitchSave
    \/ MainCreateVmat
    \/ ShowResult

Spec == Init /\ [][Next]_vars

-----------------------------------------------------------------------------
(* stitch_skybox(files, output_path) on its own: entered with the dict     *)
(* that select_skybox_files returned for the standard set, pictures of     *)
(* every size assignment.                                                  *)

InitStitch ==
    /\ pc = "load"
    /\ file_paths \in FirstFileOrderings
    /\ native \in SizeAssignments
    /\ ident = select_skybox_files(file_paths)
    /\ files = ident.files
    /\ create_skybox = FALSE
    /\ create_moondome = FALSE
    /\ images = NoImages
    /\ base_size = 0
    /\ final_image = NoCanvas
    /\ pasted = <<>>
    /\ success = FALSE
    /\ message = "none"
    /\ atlas_file = "absent"
    /\ vmat_files = [k \in {"skybox", "moondome"} |-> "absent"]
    /\ output_path = <<"o","/","s","k","y","b","o","x","_","c","r","o","s","s",".","p","n","g">>
    /\ vmat_text = NoVmatText
    /\ exit_code = -1
    /\ GuiNotStarted
    /\ UpdateCheckerNotStarted
    /\ RestNotStarted

NextStitch ==
    \/ StitchLoad
    \/ StitchPaste
    \/ StitchSave

SpecStitch == InitStitch /\ [][NextStitch]_vars

-----------------------------------------------------------------------------
(* stitch_skybox(files, output_path) called by a caller that does not go   *)
(* through select_skybox_files: with any part of the dict of the standard  *)
(* set, or with that dict and one more key.                                *)

\* the dict select_skybox_files returns for the standard set in pool order
StandardFiles == select_skybox_files(<<1, 2, 3, 4, 5, 6>>).files

DirectMappings ==
    {SelectSeq(StandardFiles, LAMBDA e : e[1] \in keep) : keep \in SUBSET Faces}
        \cup {Append(StandardFiles, <<"top", 7>>)}

InitStitchDirect ==
    /\ pc = "load"
    /\ file_paths = <<>>
    /\ native = [f \in FileIds |-> <<1, 1>>]
    /\ ident = NoIdent
    /\ files \in DirectMappings
    /\ create_skybox = FALSE
    /\ create_moondome = FALSE
    /\ images = NoImages
    /\ base_size = 0
    /\ final_image = NoCanvas
    /\ pasted = <<>>
    /\ success = FALSE
    /\ message = "none"
    /\ atlas_file = "absent"
    /\ vmat_files = [k \in {"skybox", "moondome"} |-> "absent"]
    /\ output_path = <<"o","/","s","k","y","b","o","x","_","c","r","o","s","s",".","p","n","g">>
    /\ vmat_text = NoVmatText
    /\ exit_code = -1
    /\ GuiNotStarted
    /\ UpdateCheckerNotStarted
    /\ RestNotStarted

SpecStitchDirect == InitStitchDirect /\ [][NextStitch]_vars

-----------------------------------------------------------------------------
(* skybox_gui.py: SkyboxConverterApp.  The user interface runs one handler *)
(* per frame; run_conversion_thread runs beside it.                        *)

\* how many conversions run to their end
MaxRuns == 1

\* lines 197 and 245
face_suffixes ==
    << <<"u","p">>, <<"d","n">>, <<"l","f">>, <<"r","t">>, <<"f","t">>, <<"b","k">>,
       <<"t","o","p">>, <<"d","o","w","n">>, <<"l","e","f","t">>,
       <<"r","i","g","h","t">>, <<"f","r","o","n","t">>, <<"b","a","c","k">> >>

\* lines 198-202 and 246-250: cut the first suffix of the list the name ends with
RECURSIVE StripFaceSuffix(_, _)
StripFaceSuffix(name, i) ==
    IF i > Len(face_suffixes) THEN name
    ELSE IF endswith(name, face_suffixes[i])
         THEN SubSeq(name, 1, Len(name) - Len(face_suffixes[i]))
         ELSE StripFaceSuffix(name, i + 1)

\* lines 195-203 and 244-251, for every file of the pool as first file
PrefixOf ==
    [fp \in FileIds |-> StripFaceSuffix(splitext_root(basename(FilePool[fp])), 1)]

\* not self.skybox_prefix.strip()
IsBlank(s) == \A i \in 1..Len(s) : s[i] = " "

\* line 58
DefaultPrefix == <<"s","k","y","b","o","x","_","c","u","s","t","o","m">>

\* what the user picks in the dialog of select_all_skybox_files
GuiSelections ==
    { <<1>>, <<1, 2, 3, 4, 5, 6>>, <<7, 2, 3, 4, 5, 6>>, <<9, 2, 3, 4, 5, 6>> }

\* skybox_gui_old.py is not running
OldNotStarted ==
    /\ pc = "none"
    /\ file_paths = <<>>
    /\ native = [f \in FileIds |-> <<1, 1>>]
    /\ ident = NoIdent
    /\ files = <<>>
    /\ create_skybox = FALSE
    /\ create_moondome = FALSE
    /\ images = NoImages
    /\ base_size = 0
    /\ final_image = NoCanvas
    /\ pasted = <<>>
    /\ success = FALSE
    /\ message = "none"
    /\ atlas_file = "absent"
    /\ vmat_files = [k \in {"skybox", "moondome"} |-> "absent"]
    /\ output_path = <<>>
    /\ vmat_text = NoVmatText
    /\ exit_code = -1

\* an atlas that is in the custom output directory before the tool starts
ExistingAtlas ==
    [dir |-> "dir", kind |-> "png", prefix |-> <<"s","k","y","_">>, run |-> 0]

\* __init__, lines 46-112; the output directory is empty or holds an atlas of
\* an earlier session
InitGui ==
    /\ OldNotStarted
    /\ UpdateCheckerNotStarted
    /\ RestNotStarted
    /\ skybox_files = <<>>
    /\ skybox_prefix = DefaultPrefix
    /\ output_mode = "custom"
    /\ output_dir = "None"
    /\ addon_list \in {<<>>, <<"addon">>}
    /\ create_skybox_vmat = FALSE
    /\ create_moondome_vmat = FALSE
    /\ cleanup_source_files = FALSE
    /\ conversion_in_progress = FALSE
    /\ conversion_completed = FALSE
    /\ show_done_popup = FALSE
    /\ status_message = ""
    /\ worker = "none"
    /\ env = NoEnv
    /\ temp_dir = NoTemp
    /\ returncode = -1
    /\ dest_files \in {{}, {ExistingAtlas}}
    /\ runs = 0
    /\ threads = 0
    /\ source_files = FileIds

\* select_all_skybox_files, lines 172-208 (a cancelled dialog changes nothing)
SelectAllSkyboxFiles ==
    /\ \E sel \in GuiSelections :
          IF Len(sel) # 6
          THEN /\ status_message' = "Error: Please select exactly 6 files"
               /\ UNCHANGED << skybox_files, skybox_prefix >>
          ELSE /\ skybox_files' = sel
               /\ skybox_prefix' = PrefixOf[sel[1]]
               /\ UNCHANGED status_message
    /\ UNCHANGED << output_mode, output_dir, addon_list, create_skybox_vmat,
                    create_moondome_vmat, cleanup_source_files,
                    conversion_in_progress, conversion_completed,
                    show_done_popup, worker, env, temp_dir, returncode,
                    dest_files, runs, threads, source_files >>
    /\ UNCHANGED vars_not_gui

\* select_output_directory, lines 210-219, behind the button of line 671
SelectOutputDirectory ==
    /\ output_mode = "custom"
    /\ output_dir = "None"
    /\ output_dir' = "dir"
    /\ UNCHANGED << skybox_files, skybox_prefix, output_mode, addon_list,
                    create_skybox_vmat, create_moondome_vmat,
                    cleanup_source_files, conversion_in_progress,
                    conversion_completed, show_done_popup, status_message,
                    worker, env, temp_dir, returncode, dest_files, runs, threads, source_files >>
    /\ UNCHANGED vars_not_gui

\* the radio buttons of lines 655-661
SetOutputMode ==
    /\ output_mode' = IF output_mode = "custom" THEN "addon" ELSE "custom"
    /\ UNCHANGED << skybox_files, skybox_prefix, output_dir, addon_list,
                    create_skybox_vmat, create_moondome_vmat,
                    cleanup_source_files, conversion_in_progress,
                    conversion_completed, show_done_popup, status_message,
                    worker, env, temp_dir, returncode, dest_files, runs, threads, source_files >>
    /\ UNCHANGED vars_not_gui

\* the check boxes of lines 717-723
ToggleOption ==
    /\ \E box \in {"skybox", "moondome", "cleanup"} :
          /\ create_skybox_vmat' = IF box = "skybox" THEN ~create_skybox_vmat
                                   ELSE create_skybox_vmat
          /\ create_moondome_vmat' = IF box = "moondome" THEN ~create_moondome_vmat
                                     ELSE create_moondome_vmat
          /\ cleanup_source_files' = IF box = "cleanup" THEN ~cleanup_source_files
                                     ELSE cleanup_source_files
    /\ UNCHANGED << skybox_files, skybox_prefix, output_mode, output_dir,
                    addon_list, conversion_in_progress, conversion_completed,
                    show_done_popup, status_message, worker, env, temp_dir,
                    returncode, dest_files, runs, threads, source_files >>
    /\ UNCHANGED vars_not_gui

\* lines 241-251: the prefix start_conversion works with
StartPrefix ==
    IF IsBlank(skybox_prefix) /\ Len(skybox_files) # 0
    THEN PrefixOf[skybox_files[1]]
    ELSE skybox_prefix

\* lines 224-256: the message of the validation that fails, "" if none does
StartError ==
    IF Len(skybox_files) # 6 THEN "Error: Please select all 6 skybox faces"
    ELSE IF output_mode = "custom" /\ output_dir = "None"
         THEN "Error: Please select output directory"
    ELSE IF output_mode # "custom" /\ Len(addon_list) = 0
         THEN "Error: No addon selected"
    ELSE IF IsBlank(StartPrefix)
         THEN "Error: Could not determine skybox prefix from files"
    ELSE ""

\* line 731 without its test: the button is there in every frame
ConvertButtonShown_Always == TRUE

\* line 731: the frame draws the working button only if no conversion is
\* in progress
ConvertButtonShown == ~conversion_in_progress

\* the CONVERT SKYBOX button, lines 731-733, and start_conversion, lines 221-265
StartConversion ==
    /\ ConvertButtonShown
    /\ runs < MaxRuns
    /\ IF StartError # ""
       THEN /\ status_message' = StartError
            /\ skybox_prefix' = IF Len(skybox_files) = 6
                                   /\ ~(output_mode = "custom" /\ output_dir = "None")
                                   /\ ~(output_mode # "custom" /\ Len(addon_list) = 0)
                                THEN StartPrefix ELSE skybox_prefix
            /\ UNCHANGED << conversion_in_progress, conversion_completed,
                            worker, threads >>
       ELSE /\ skybox_prefix' = StartPrefix
            /\ conversion_in_progress' = TRUE
            /\ conversion_completed' = FALSE
            /\ status_message' = "Converting..."
            /\ worker' = "stage"
            /\ threads' = threads + 1
    /\ UNCHANGED << skybox_files, output_mode, output_dir, addon_list,
                    create_skybox_vmat, create_moondome_vmat,
                    cleanup_source_files, show_done_popup, env, temp_dir,
                    returncode, dest_files, runs, source_files >>
    /\ UNCHANGED vars_not_gui

\* a thread whose last statement clears the flag only after a success
InProgressAtEnd_OnlyOnSuccess(failed) ==
    IF failed THEN conversion_in_progress ELSE FALSE

\* line 384, the finally clause: the flag once the thread has ended, whether
\* the try block raised (failed) or not
InProgressAtEnd(failed) == FALSE

\* run_conversion_thread, lines 269-316: output directory, staging directory,
\* copies of the selected files, environment; a failing copy ends in the
\* handlers of lines 377-384
WorkerStage ==
    /\ worker = "stage"
    /\ \E step \in {"staged", "copy_failed", "setup_failed"} :
          \* line 275 raises for an empty addon list
          /\ (output_mode = "addon" /\ Len(addon_list) = 0) => step = "setup_failed"
          \* line 300 raises for a file that is not on disk
          /\ step = "staged" => Range(skybox_files) \subseteq source_files
          /\ IF step = "setup_failed"
              THEN \* lines 274-296 raise, no staging directory is made
                   /\ status_message' = "Error: exception"
                   /\ conversion_in_progress' = InProgressAtEnd(TRUE)
                   /\ worker' = "none"
                   /\ runs' = runs + 1
                   /\ threads' = threads - 1
                   /\ UNCHANGED << env, temp_dir >>
              ELSE IF step = "staged"
              THEN /\ temp_dir' = [exists |-> TRUE, staged |-> Range(skybox_files),
                                   skybox |-> {}]
                   /\ env' = [prefix               |-> skybox_prefix,
                              create_skybox_vmat   |-> create_skybox_vmat,
                              create_moondome_vmat |-> create_moondome_vmat,
                              cleanup_source_files |-> cleanup_source_files,
                              output_dir           |-> IF output_mode = "addon"
                                                       THEN "addon" ELSE output_dir,
                              files                |-> skybox_files]
                   /\ worker' = "subprocess"
                   /\ UNCHANGED << status_message, conversion_in_progress,
                                   runs, threads >>
              ELSE /\ temp_dir' = [exists |-> TRUE, staged |-> {}, skybox |-> {}]
                   /\ status_message' = "Error: exception"
                   /\ conversion_in_progress' = InProgressAtEnd(TRUE)
                   /\ worker' = "none"
                   /\ runs' = runs + 1
                   /\ threads' = threads - 1
                   /\ UNCHANGED env
    /\ UNCHANGED << skybox_files, skybox_prefix, output_mode, output_dir,
                    addon_list, create_skybox_vmat, create_moondome_vmat,
                    cleanup_source_files, conversion_completed,
                    show_done_popup, returncode, dest_files, source_files >>
    /\ UNCHANGED vars_not_gui

\* scripts/SkyboxConverter.py, the process started at line 319: what it can
\* end with for the environment e.  It identifies the staged files, composes
\* the atlas <prefix>.png in the directory skybox and then emits the wanted
\* descriptors; any failure gives a non-zero exit and no descriptor.
ConverterOutcomes(e) ==
    IF select_skybox_files(e.files).kind = "ok"
    THEN {"converted", "failed", "failed_after_atlas"}
    ELSE {"failed"}

\* the exit code and the files left in the directory skybox
SkyboxConverter(e, outcome) ==
    LET atlas == {[kind |-> "png", prefix |-> e.prefix]}
        sky   == IF e.create_skybox_vmat
                 THEN {[kind |-> "skybox_vmat", prefix |-> e.prefix]} ELSE {}
        moon  == IF e.create_moondome_vmat
                 THEN {[kind |-> "moondome_vmat", prefix |-> e.prefix]} ELSE {}
    IN  CASE outcome = "converted" ->
                [returncode |-> 0, skybox |-> atlas \cup sky \cup moon]
          [] outcome = "failed_after_atlas" ->
                [returncode |-> 1, skybox |-> atlas]
          [] outcome = "failed" ->
                [returncode |-> 1, skybox |-> {}]

\* lines 313-316: CLEANUP_SOURCE_FILES and ORIGINAL_FILE_PATHS, "Pass original
\* file paths for cleanup": the files a finished conversion is told to remove
CleanedUp(e, outcome) ==
    IF e.cleanup_source_files /\ outcome = "converted" THEN Range(e.files) ELSE {}

\* run_conversion_thread, lines 318-333: subprocess.run, called without a
\* timeout, returns when the process has ended; behind a process that never
\* ends the thread stays in the call ("blocked")
WorkerSubprocess ==
    /\ worker = "subprocess"
    /\ \/ /\ worker' = "blocked"
          /\ UNCHANGED << returncode, temp_dir, source_files >>
       \/ \E outcome \in ConverterOutcomes(env) :
             LET result == SkyboxConverter(env, outcome) IN
             /\ returncode' = result.returncode
             /\ temp_dir' = [temp_dir EXCEPT !.skybox = result.skybox]
             /\ source_files' = source_files \ CleanedUp(env, outcome)
             /\ worker' = "collect"
    /\ UNCHANGED << skybox_files, skybox_prefix, output_mode, output_dir,
                    addon_list, create_skybox_vmat, create_moondome_vmat,
                    cleanup_source_files, conversion_in_progress,
                    conversion_completed, show_done_popup, status_message,
                    env, dest_files, runs, threads >>
    /\ UNCHANGED vars_not_gui

\* shutil.copy: a file of the same name in the same directory is replaced
Copied(fs, new) ==
    {f \in fs : ~\E n \in new :
                    n.dir = f.dir /\ n.kind = f.kind /\ n.prefix = f.prefix}
        \cup new

\* a file of the directory skybox as copied into the output directory
Delivered(f) == [dir |-> env.output_dir, kind |-> f.kind, prefix |-> f.prefix,
                 run |-> runs + 1]

\* lines 342-346: the atlas looked for, named after self.skybox_prefix as it
\* is when the process has ended
ExpectedAtlas == {f \in temp_dir.skybox : f.kind = "png" /\ f.prefix = skybox_prefix}

\* lines 352-353: every file of the directory skybox ending in .vmat
StagedVmats == {f \in temp_dir.skybox : f.kind # "png"}

\* run_conversion_thread, lines 335-384: copy the results, report, clean up.
\* failing names the copy that raises: "none", the atlas, or a descriptor
\* after the descriptors of done were copied
WorkerCollect ==
    /\ worker = "collect"
    /\ IF returncode = 0
       THEN \E failing \in {"none", "png", "vmat"} :
               \/ /\ failing = "none"
                  /\ dest_files' = Copied(dest_files,
                        {Delivered(f) : f \in ExpectedAtlas \cup StagedVmats})
                  /\ status_message' = "Conversion completed successfully!"
                  /\ conversion_completed' = TRUE
                  /\ show_done_popup' = TRUE
                  /\ temp_dir' = NoTemp
               \/ /\ failing = "png"
                  /\ ExpectedAtlas # {}
                  /\ status_message' = "Error: exception"
                  /\ UNCHANGED << dest_files, conversion_completed,
                                  show_done_popup, temp_dir >>
               \/ /\ failing = "vmat"
                  /\ \E done \in SUBSET StagedVmats :
                        /\ done # StagedVmats
                        /\ dest_files' = Copied(dest_files,
                              {Delivered(f) : f \in ExpectedAtlas \cup done})
                  /\ status_message' = "Error: exception"
                  /\ UNCHANGED << conversion_completed, show_done_popup, temp_dir >>
       ELSE /\ status_message' = "Error: Skybox conversion failed"
            /\ UNCHANGED << dest_files, conversion_completed, show_done_popup,
                            temp_dir >>
    /\ conversion_in_progress' =
          InProgressAtEnd(status_message' # "Conversion completed successfully!")
    /\ worker' = "none"
    \* env and result are locals of the thread and end with it
    /\ env' = NoEnv
    /\ returncode' = -1
    /\ runs' = runs + 1
    /\ threads' = threads - 1
    /\ UNCHANGED << skybox_files, skybox_prefix, output_mode, output_dir,
                    addon_list, create_skybox_vmat, create_moondome_vmat,
                    cleanup_source_files, source_files >>
    /\ UNCHANGED vars_not_gui

NextGui ==
    \/ SelectAllSkyboxFiles
    \/ SelectOutputDirectory
    \/ SetOutputMode
    \/ ToggleOption
    \/ StartConversion
    \/ WorkerStage
    \/ WorkerSubprocess
    \/ WorkerCollect

SpecGui == InitGui /\ [][NextGui]_vars

\* the interpreter keeps running a thread that can run
SpecGuiLive ==
    /\ InitGui /\ [][NextGui]_vars
    /\ WF_vars(WorkerStage)
    /\ WF_vars(WorkerSubprocess)
    /\ WF_vars(WorkerCollect)

-----------------------------------------------------------------------------
(* utils/update_checker.py: UpdateChecker.  Time is time.time() in seconds; *)
(* a version is a timestamp.                                               *)

\* the clock of the model stops here
MaxClock == 300

\* how many times check_for_updates is called
MaxCalls == 4

\* seconds between two checks, line 73
CHECK_INTERVAL == 150

\* the asset names of a release
ExeWindowed == <<"C","S","2","K","Z","-","M","a","p","p","i","n","g","T","o","o","l","s",".","e","x","e">>
ExeConsole == <<"C","S","2","K","Z","-","M","a","p","p","i","n","g","T","o","o","l","s","-","C","o","n","s","o","l","e",".","e","x","e">>
SourceZip == <<"C","S","2","K","Z","-","M","a","p","p","i","n","g","T","o","o","l","s",".","z","i","p">>

AssetNames == {ExeWindowed, ExeConsole, SourceZip}

\* data['assets']: up to two assets, in the order of the release
AssetLists ==
    {<<>>} \cup {<<a>> : a \in AssetNames}
           \cup {ab \in AssetNames \X AssetNames : ab[1] # ab[2]}

\* what urlopen and json.loads give: an exception, or a release with its
\* published_at (-1 = absent or empty) and its assets
Responses ==
    {[raised |-> TRUE, published_at |-> -1, assets |-> <<>>]}
        \cup [raised : {FALSE}, published_at : {-1, 1, 3}, assets : AssetLists]

\* line 121 and line 123-125: the asset is an executable of this tool and of
\* the kind that is running
AssetMatches(name) ==
    /\ endswith(name, <<".","e","x","e">>)
    /\ Contains(<<"C","S","2","K","Z">>, name)
    /\ Contains(<<"M","a","p","p","i","n","g","T","o","o","l","s">>, name)
    /\ is_console_version = Contains(<<"c","o","n","s","o","l","e">>, lower(name))

\* a throttle that never holds a call back
should_check_for_updates_Always == TRUE

\* should_check_for_updates, lines 67-73
should_check_for_updates ==
    IF last_check_time = -1
    THEN TRUE
    ELSE now - last_check_time >= CHECK_INTERVAL

\* __init__, lines 18-29: the version is the timestamp of the program file,
\* 0 when it cannot be read; only an executable can be the console build
InitUpdate ==
    /\ OldNotStarted
    /\ GuiNotStarted
    /\ RestNotStarted
    /\ now = 0
    /\ last_check_time = -1
    /\ update_available = FALSE
    /\ latest_download_url = <<>>
    /\ latest_version = -1
    /\ current_version \in {0, 2}
    /\ is_console_version \in BOOLEAN
    /\ (current_version = 0 => ~is_console_version)
    /\ calls = 0
    /\ fetches = 0
    /\ returned = FALSE
    /\ release_found = FALSE

\* time passes
Tick ==
    /\ \E d \in {50, 100, 149} :
        /\ now + d <= MaxClock
        /\ now' = now + d
    /\ UNCHANGED << last_check_time, update_available, latest_download_url,
                    latest_version, current_version, is_console_version,
                    calls, fetches, returned, release_found >>
    /\ UNCHANGED vars_not_uc

\* the answer holds a release published after the running version, with an
\* asset of the running build type
NewerMatchingRelease(response) ==
    /\ ~response.raised
    /\ response.published_at # -1
    /\ response.published_at > current_version
    /\ \E i \in 1..Len(response.assets) : AssetMatches(response.assets[i])

\* lines 85-149: what the answer of the server does to the checker
Fetched(response) ==
    LET matching == {i \in 1..Len(response.assets) :
                        AssetMatches(response.assets[i])}
        first == CHOOSE i \in matching : \A j \in matching : i <= j
    IN  IF response.raised
        THEN /\ update_available' = FALSE
             /\ returned' = FALSE
             /\ UNCHANGED << latest_download_url, latest_version >>
        ELSE IF response.published_at = -1
        THEN /\ returned' = FALSE
             /\ UNCHANGED << update_available, latest_download_url,
                             latest_version >>
        ELSE IF response.published_at > current_version /\ matching # {}
        THEN /\ update_available' = TRUE
             /\ latest_download_url' = response.assets[first]
             /\ latest_version' = response.published_at
             /\ returned' = TRUE
        ELSE /\ update_available' = FALSE
             /\ returned' = FALSE
             /\ UNCHANGED << latest_download_url, latest_version >>

\* check_for_updates, lines 75-149
CheckForUpdates ==
    /\ calls < MaxCalls
    /\ calls' = calls + 1
    /\ IF ~should_check_for_updates
       THEN /\ returned' = update_available
            /\ UNCHANGED << last_check_time, update_available,
                            latest_download_url, latest_version, fetches,
                            release_found >>
       ELSE /\ last_check_time' = now
            /\ fetches' = fetches + 1
            /\ \E response \in Responses :
                  /\ Fetched(response)
                  /\ release_found' = NewerMatchingRelease(response)
    /\ UNCHANGED << now, current_version, is_console_version >>
    /\ UNCHANGED vars_not_uc

NextUpdate ==
    \/ Tick
    \/ CheckForUpdates

SpecUpdate == InitUpdate /\ [][NextUpdate]_vars

-----------------------------------------------------------------------------
(* utils/theme_manager.py: ThemeManager.  The settings file belongs to the  *)
(* main application, which writes and removes it at any time; its          *)
(* modification time grows with every write.                               *)

\* the latest modification time of the model
MaxMtime == 3

\* how many times ThemeManager.check_for_updates is called
MaxThemeCalls == 3

\* the keys of THEMES, lines 20-120
THEMES == {"grey", "black", "white", "dracula", "pink", "orange", "blue",
           "red", "green", "yellow"}

\* what the file can hold: nothing, text that is no JSON, JSON that is no
\* object, an object without appearance_mode, or an object whose
\* appearance_mode is the given name ("system" is the default of
\* settings_manager.py and no theme)
SettingsContents ==
    {"empty", "invalid", "array", "no_key", "system", "grey", "dracula", "yellow"}

\* line 143: settings.get('appearance_mode', 'grey')
AppearanceMode(content) == IF content = "no_key" THEN "grey" ELSE content

\* a loader that takes every name
ThemeAccepted_Any(theme) == TRUE

\* line 144
ThemeAccepted(theme) == theme \in THEMES

\* _load_theme, lines 131-153: the theme and the last_mtime it leaves for the
\* file f, starting from theme and mtime
load_theme(f, theme, mtime) ==
    IF ~f.exists
    THEN [current_theme |-> theme, last_mtime |-> mtime]
    ELSE IF f.content = "empty"
    THEN \* lines 135-138
         [current_theme |-> "grey", last_mtime |-> mtime]
    ELSE IF f.content = "invalid"
    THEN \* json.load raises JSONDecodeError, lines 148-150
         [current_theme |-> "grey", last_mtime |-> mtime]
    ELSE IF f.content = "array"
    THEN \* settings.get raises AttributeError, lines 151-153
         [current_theme |-> "grey", last_mtime |-> mtime]
    ELSE [current_theme |-> IF ThemeAccepted(AppearanceMode(f.content))
                            THEN AppearanceMode(f.content) ELSE theme,
          last_mtime    |-> f.mtime]

\* the settings files a tool can find when it starts
InitialSettings ==
    {NoSettings} \cup [exists : {TRUE}, content : SettingsContents, mtime : {1}]

\* __init__, lines 123-129
InitTheme ==
    /\ OldNotStarted
    /\ GuiNotStarted
    /\ UpdateCheckerNotStarted
    /\ LauncherNotStarted
    /\ CacheNotStarted
    /\ settings_file \in InitialSettings
    /\ last_mtime = load_theme(settings_file, "grey", 0).last_mtime
    /\ current_theme = load_theme(settings_file, "grey", 0).current_theme
    /\ theme_calls = 0
    /\ theme_changed = FALSE
    /\ settings_touched = FALSE

\* the main application saves its settings
WriteSettings ==
    /\ settings_file.mtime < MaxMtime
    /\ \E content \in SettingsContents :
          settings_file' = [exists |-> TRUE, content |-> content,
                            mtime |-> settings_file.mtime + 1]
    /\ settings_touched' = TRUE
    /\ UNCHANGED << last_mtime, current_theme, theme_calls, theme_changed >>
    /\ UNCHANGED vars_not_tm

\* the settings file is removed
RemoveSettings ==
    /\ settings_file.exists
    /\ settings_file' = [settings_file EXCEPT !.exists = FALSE]
    /\ settings_touched' = TRUE
    /\ UNCHANGED << last_mtime, current_theme, theme_calls, theme_changed >>
    /\ UNCHANGED vars_not_tm

\* check_for_updates, lines 155-165
ThemeCheckForUpdates ==
    /\ theme_calls < MaxThemeCalls
    /\ theme_calls' = theme_calls + 1
    /\ IF settings_file.exists /\ settings_file.mtime > last_mtime
       THEN /\ current_theme' =
                  load_theme(settings_file, current_theme, last_mtime).current_theme
            /\ last_mtime' =
                  load_theme(settings_file, current_theme, last_mtime).last_mtime
            /\ theme_changed' = TRUE
       ELSE /\ theme_changed' = FALSE
            /\ UNCHANGED << current_theme, last_mtime >>
    /\ settings_touched' = FALSE
    /\ UNCHANGED settings_file
    /\ UNCHANGED vars_not_tm

NextTheme ==
    \/ WriteSettings
    \/ RemoveSettings
    \/ ThemeCheckForUpdates

SpecTheme == InitTheme /\ [][NextTheme]_vars

-----------------------------------------------------------------------------
(* scripts/S2V-AUL.py: the launcher of Source2Viewer.  main runs once; the  *)
(* network, the archive and the start of the process can each fail.        *)

HEXDIGITS == {"0","1","2","3","4","5","6","7","8","9",
              "a","b","c","d","e","f","A","B","C","D","E","F"}

\* str.upper() on one character
UpperChar(c) ==
    IF \E i \in 1..Len(LOWERCASE) : LOWERCASE[i] = c
    THEN UPPERCASE[CHOOSE i \in 1..Len(LOWERCASE) : LOWERCASE[i] = c]
    ELSE c

\* str.upper()
upper(s) == [i \in 1..Len(s) |-> UpperChar(s[i])]

\* the commit ids the server can name
ShaA == <<"a","b","1","2","c","d","3","4","e","f">>
ShaB == <<"0","f","0","f","0","f","0","f","9","9">>

\* the answers to the request of line 75: no answer, an answer without sha,
\* a commit
RemoteAnswers == {"error", "no_sha", "A", "B"}

\* get_remote_version, lines 71-94 (<<>> = None)
get_remote_version(answer) ==
    CASE answer = "error"  -> <<>>
      [] answer = "no_sha" -> <<>>
      [] answer = "A"      -> upper(SubSeq(ShaA, 1, 8))
      [] answer = "B"      -> upper(SubSeq(ShaB, 1, 8))

\* the ProductVersion strings an installed viewer can carry: the build of
\* commit A, a build with a seven-digit id of commit B, a build without id
ProductVersions ==
    { <<"1",".","0","+","a","b","1","2","c","d","3","4">>,
      <<"1",".","0","+","0","f","0","f","0","f","0">>,
      <<"1",".","0",".","0",".","0">> }

\* how many hexadecimal digits follow position i of s, up to 8
HexRun(s, i) ==
    LET stops == {n \in 0..8 : i + n + 1 > Len(s) \/ s[i + n + 1] \notin HEXDIGITS}
    IN  IF \A n \in 0..7 : i + n + 1 <= Len(s) /\ s[i + n + 1] \in HEXDIGITS
        THEN 8
        ELSE CHOOSE n \in stops : \A m \in stops : n <= m

\* re.search(r'\+([a-fA-F0-9]{6,8})', s), lines 111-114: the group of the
\* leftmost match, in capitals, <<>> if there is none
EmbeddedSha(s) ==
    LET starts == {i \in 1..Len(s) : s[i] = "+" /\ HexRun(s, i) >= 6}
        first  == CHOOSE i \in starts : \A j \in starts : i <= j
    IN  IF starts = {} THEN <<>>
        ELSE upper(SubSeq(s, first + 1, first + HexRun(s, first)))

\* get_local_version, lines 96-140
get_local_version ==
    IF ~app_executable.exists THEN <<"0">>
    ELSE IF ~pywin32 THEN <<"0">>
    ELSE IF EmbeddedSha(app_executable.product_version) # <<>>
    THEN EmbeddedSha(app_executable.product_version)
    ELSE <<"0">>

\* a launcher that goes on whatever download_and_install returned
UpdateSucceeded_Ignored(ok) == TRUE

\* lines 282-284: main goes on only if download_and_install returned True
UpdateSucceeded(ok) == ok

\* lines 197-204 and 305-312: the version file with the two entries set
WithVersions(f, current, latest) ==
    [exists  |-> TRUE,
     entries |-> {e \in f.entries : e[1] \notin {"source2viewer", "source2viewer_latest"}}
                    \cup {<<"source2viewer", current>>,
                          <<"source2viewer_latest", latest>>}]

\* the machine the launcher is started on
InitLauncher ==
    /\ OldNotStarted
    /\ GuiNotStarted
    /\ UpdateCheckerNotStarted
    /\ ThemeManagerNotStarted
    /\ CacheNotStarted
    /\ aul_pc = "remote"
    /\ remote_version = <<>>
    /\ local_version = <<>>
    /\ installed = "none"
    /\ app_launched = FALSE
    /\ aul_exit = -1
    /\ app_executable \in {NoExecutable}
            \cup [exists : {TRUE}, product_version : ProductVersions]
    /\ pywin32 \in BOOLEAN
    /\ version_file \in {NoVersionFile,
                         [exists |-> TRUE, entries |-> {<<"metamod", <<"1">>>>}]}
    /\ download_flag = FALSE

\* main, lines 272-275
AulGetRemoteVersion ==
    /\ aul_pc = "remote"
    /\ \E answer \in RemoteAnswers :
          /\ remote_version' = get_remote_version(answer)
          /\ IF get_remote_version(answer) = <<>>
             THEN aul_pc' = "exited" /\ aul_exit' = 1
             ELSE aul_pc' = "local" /\ UNCHANGED aul_exit
    /\ UNCHANGED << local_version, installed, app_launched, app_executable,
                    pywin32, version_file, download_flag >>
    /\ UNCHANGED vars_not_aul

\* main, lines 277-279
AulGetLocalVersion ==
    /\ aul_pc = "local"
    /\ local_version' = get_local_version
    /\ aul_pc' = IF remote_version # get_local_version THEN "update" ELSE "cache"
    /\ UNCHANGED << remote_version, installed, app_launched, aul_exit,
                    app_executable, pywin32, version_file, download_flag >>
    /\ UNCHANGED vars_not_aul

\* download_and_install, lines 142-251, and main, lines 282-284.  The
\* download fails, the archive is bad, the extraction fails after the old
\* executable was removed, or the archive is extracted (with or without an
\* executable in it); the version file may refuse the write
AulDownloadAndInstall ==
    /\ aul_pc = "update"
    /\ \E outcome \in {"request_error", "bad_zip", "extract_error",
                       "extracted", "extracted_no_exe"},
          removable \in BOOLEAN, saved \in BOOLEAN :
          LET old_gone == IF removable THEN NoExecutable ELSE app_executable
              done     == outcome \in {"extracted", "extracted_no_exe"}
          IN  /\ app_executable' =
                    CASE outcome = "request_error" -> app_executable
                      [] outcome = "bad_zip" -> old_gone
                      [] outcome = "extract_error" -> old_gone
                      [] outcome = "extracted" ->
                            [exists |-> TRUE,
                             product_version |-> <<"1","+">> \o
                                 (IF upper(SubSeq(ShaA, 1, 8)) = remote_version
                                  THEN ShaA ELSE ShaB)]
                      [] outcome = "extracted_no_exe" -> old_gone
              \* a failing extraction needs an executable that is in the way
              /\ (outcome = "extract_error" /\ ~removable) => app_executable.exists
              /\ version_file' = IF done /\ saved
                                 THEN WithVersions(version_file, remote_version,
                                                   remote_version)
                                 ELSE version_file
              /\ installed' = IF done THEN "True" ELSE "False"
              /\ IF UpdateSucceeded(done)
                 THEN aul_pc' = "launch" /\ UNCHANGED aul_exit
                 ELSE aul_pc' = "exited" /\ aul_exit' = 1
    \* the flag file is written at line 148 and removed on every way out
    /\ download_flag' = FALSE
    /\ UNCHANGED << remote_version, local_version, app_launched, pywin32 >>
    /\ UNCHANGED vars_not_aul

\* main, lines 285-315: the versions are equal, the cache file is rewritten
AulUpdateCache ==
    /\ aul_pc = "cache"
    /\ \E saved \in BOOLEAN :
          version_file' = IF saved
                          THEN WithVersions(version_file, local_version,
                                            remote_version)
                          ELSE version_file
    /\ aul_pc' = "launch"
    /\ UNCHANGED << remote_version, local_version, installed, app_launched,
                    aul_exit, app_executable, pywin32, download_flag >>
    /\ UNCHANGED vars_not_aul

\* launch_app, lines 253-269, and main, lines 319-328
AulLaunch ==
    /\ aul_pc = "launch"
    /\ \E started \in BOOLEAN :
          LET launched == app_executable.exists /\ started
          IN  /\ app_launched' = launched
              /\ aul_exit' = IF launched THEN 0 ELSE 1
    /\ aul_pc' = "exited"
    /\ UNCHANGED << remote_version, local_version, installed, app_executable,
                    pywin32, version_file, download_flag >>
    /\ UNCHANGED vars_not_aul

NextLauncher ==
    \/ AulGetRemoteVersion
    \/ AulGetLocalVersion
    \/ AulDownloadAndInstall
    \/ AulUpdateCache
    \/ AulLaunch

SpecLauncher == InitLauncher /\ [][NextLauncher]_vars

-----------------------------------------------------------------------------
(* scripts/sounds.py: the preview cache of SoundsManagerApp.  An entry of   *)
(* the directory is a file or a directory with a modification time.        *)

\* the largest max_files a call is made with
MaxKeep == 2

\* how many times cleanup_preview_cache is called
MaxCacheCalls == 2

\* what the directory can hold: two files of the same age, two younger
\* files, a sub-directory
CacheUniverse ==
    { [name |-> "a", kind |-> "file", mtime |-> 1],
      [name |-> "b", kind |-> "file", mtime |-> 1],
      [name |-> "c", kind |-> "file", mtime |-> 2],
      [name |-> "d", kind |-> "file", mtime |-> 3],
      [name |-> "sub", kind |-> "dir", mtime |-> 1] }

\* lines 393-398: the entries that are files
CacheFiles(entries) == {e \in entries : e.kind = "file"}

\* os.listdir gives the entries in an order of its own
Listings(S) ==
    {l \in [1..Cardinality(S) -> S] : \A i, j \in 1..Cardinality(S) :
                                          l[i] = l[j] => i = j}

\* list.sort(key=getmtime), line 417: ascending and stable
RECURSIVE SortByMtime(_)
SortByMtime(l) ==
    IF Len(l) <= 1 THEN l
    ELSE LET rest == SortByMtime(SubSeq(l, 1, Len(l) - 1))
             x    == l[Len(l)]
             pos  == Cardinality({i \in 1..Len(rest) : rest[i].mtime <= x.mtime})
         IN  SubSeq(rest, 1, pos) \o <<x>> \o SubSeq(rest, pos + 1, Len(rest))

\* a cleanup that never makes room
target_count_NoRoom(max_files, make_room_for_new) == max_files

\* lines 407-413
target_count(max_files, make_room_for_new) ==
    IF make_room_for_new THEN max_files - 1 ELSE max_files

\* the directory at the start of the tool
InitCache ==
    /\ OldNotStarted
    /\ GuiNotStarted
    /\ UpdateCheckerNotStarted
    /\ ThemeManagerNotStarted
    /\ LauncherNotStarted
    /\ cache_dir \in {[exists |-> FALSE, entries |-> {}]}
            \cup [exists : {TRUE}, entries : SUBSET CacheUniverse]
    /\ cache_args = NoCacheArgs
    /\ cache_error = "none"
    /\ cache_calls = 0

\* cleanup_preview_cache, lines 385-429.  failing is what the call cannot
\* do: list the directory, read a modification time, or remove the files
\* of unremovable
CleanupPreviewCache ==
    /\ cache_calls < MaxCacheCalls
    /\ cache_calls' = cache_calls + 1
    /\ \E max_files \in 1..MaxKeep, make_room_for_new \in BOOLEAN :
          /\ cache_args' = [max_files |-> max_files,
                            make_room_for_new |-> make_room_for_new]
          /\ IF ~cache_dir.exists
             THEN \* lines 388-389
                  /\ cache_error' = "none"
                  /\ UNCHANGED cache_dir
             ELSE \E failing \in {"none", "list", "stat"},
                     cache_files \in Listings(CacheFiles(cache_dir.entries)),
                     unremovable \in SUBSET CacheFiles(cache_dir.entries) :
                    LET target == target_count(max_files, make_room_for_new)
                        files_to_delete == Len(cache_files) - target
                        oldest == SubSeq(SortByMtime(cache_files), 1, files_to_delete)
                        removed == Range(oldest) \ unremovable
                    IN  IF failing = "list"
                        THEN \* lines 399-401
                             /\ cache_error' = "list"
                             /\ UNCHANGED cache_dir
                        ELSE IF Len(cache_files) <= target
                        THEN /\ cache_error' = "none"
                             /\ UNCHANGED cache_dir
                        ELSE IF failing = "stat"
                        THEN \* getmtime raises inside sort, lines 427-428
                             /\ cache_error' = "stat"
                             /\ UNCHANGED cache_dir
                        ELSE /\ cache_error' =
                                   IF Range(oldest) \cap unremovable = {}
                                   THEN "none" ELSE "delete"
                             /\ cache_dir' =
                                   [cache_dir EXCEPT !.entries = @ \ removed]
    /\ UNCHANGED vars_not_cache

\* preview_internal_sound, lines 459-487: the decompiler puts a file into the
\* directory, younger than what is there
PreviewCached ==
    /\ \E e \in CacheFiles(CacheUniverse) \ cache_dir.entries :
          /\ \A f \in cache_dir.entries : f.mtime <= e.mtime
          /\ cache_dir' = [exists |-> TRUE, entries |-> cache_dir.entries \cup {e}]
    /\ UNCHANGED << cache_args, cache_error, cache_calls >>
    /\ UNCHANGED vars_not_cache

NextCache ==
    \/ CleanupPreviewCache
    \/ PreviewCached

SpecCache == InitCache /\ [][NextCache]_vars

-----------------------------------------------------------------------------
(* Notions the properties are stated in *)

Min(S) == CHOOSE x \in S : \A y \in S : x <= y

\* the files of a selection in pool order
Canonical(paths) ==
    LET S == Range(paths)
    IN  [i \in 1..Cardinality(S) |->
            CHOOSE x \in S : Cardinality({y \in S : y < x}) = i - 1]

\* the slots whose pattern table has a pattern occurring in the file's name
MatchingSlotsOf ==
    [fp \in FileIds |->
        {k \in 1..Len(TARGET_SLOTS) : MatchesFace(TARGET_SLOTS[k], FilenameOf(fp))}]

MatchingSlots(fp) == MatchingSlotsOf[fp]

\* the slot that claims a file: the first of the slot order that matches it
ClaimedSlot(fp) ==
    IF MatchingSlots(fp) = {} THEN "none" ELSE TARGET_SLOTS[Min(MatchingSlots(fp))]

\* a dict as a set of (face, path) pairs
MappingOf(fs) == {<<fs[i][1], fs[i][2]>> : i \in 1..Len(fs)}

\* select_skybox_files has just returned for a selection of six files
Identified == Len(file_paths) = 6 /\ ident.kind # "none"
JustIdentified == Identified /\ (pc = "prefs" \/ (pc = "exit" /\ Len(files) = 0))

-----------------------------------------------------------------------------
(* C1: a returned mapping has every one of the six slots exactly once,     *)
(* each with one of the selected files, and no file under two slots.       *)
C1_MappingIsBijection ==
    Len(files) # 0 =>
        /\ \A face \in Faces :
              Cardinality({i \in 1..Len(files) : files[i][1] = face}) = 1
        /\ \A i \in 1..Len(files) : files[i][2] \in Range(file_paths)
        /\ \A i, j \in 1..Len(files) : files[i][2] = files[j][2] => i = j
        /\ Len(files) = 6

C1_Witness == pc = "prefs" /\ ident.kind = "ok" /\ Len(files) = 6

(* C2 as stated: two files matching the pattern table of one slot always   *)
(* end in the duplicate-face error.                                        *)
C2_TableMatchIsAmbiguous ==
    JustIdentified =>
        ((\E k \in 1..Len(TARGET_SLOTS) : \E i, j \in 1..6 :
              /\ i # j
              /\ k \in MatchingSlots(file_paths[i])
              /\ k \in MatchingSlots(file_paths[j]))
         => ident.kind = "duplicate")

(* C2 amended: two files claimed by the same slot (the first slot of the   *)
(* slot order matching each) end in the duplicate-face error, never in     *)
(* the incomplete-set error, in every order of the files.                  *)
C2_ClaimedTwiceIsAmbiguous ==
    JustIdentified =>
        ((\E i, j \in 1..6 :
              /\ i # j
              /\ ClaimedSlot(file_paths[i]) # "none"
              /\ ClaimedSlot(file_paths[i]) = ClaimedSlot(file_paths[j]))
         => ident.kind = "duplicate" /\ Len(files) = 0)

\* a duplicate is reported although another slot has no candidate at all and
\* the unmatched file came first
C2_Witness ==
    /\ JustIdentified
    /\ ident.kind = "duplicate"
    /\ \E k \in 1..Len(TARGET_SLOTS) : \A i \in 1..6 : k \notin MatchingSlots(file_paths[i])
    /\ ClaimedSlot(file_paths[1]) = "none"

(* C3: without a doubly claimed slot and with fewer than six slots         *)
(* resolved the incomplete-set error is raised; it lists exactly the       *)
(* slots without a file and exactly the names of the unclaimed files.      *)
C3_IncompleteListsMissingAndUnmatched ==
    JustIdentified =>
        LET claimed   == {ClaimedSlot(file_paths[i]) : i \in 1..6} \ {"none"}
            unclaimed == {i \in 1..6 : ClaimedSlot(file_paths[i]) = "none"}
            twice     == \E i, j \in 1..6 :
                            /\ i # j
                            /\ ClaimedSlot(file_paths[i]) # "none"
                            /\ ClaimedSlot(file_paths[i]) = ClaimedSlot(file_paths[j])
        IN  /\ (~twice /\ Cardinality(claimed) < 6) <=> ident.kind = "incomplete"
            /\ ident.kind = "incomplete" =>
                  /\ Range(ident.missing) = Faces \ claimed
                  /\ Len(ident.missing) = Cardinality(Faces \ claimed)
                  /\ Range(ident.unmatched) =
                        {basename(FilePool[file_paths[i]]) : i \in unclaimed}
                  /\ Len(ident.unmatched) = Cardinality(unclaimed)
                  /\ Len(files) = 0

C3_Witness ==
    /\ JustIdentified
    /\ ident.kind = "incomplete"
    /\ ident.missing = <<"up">>
    /\ Len(ident.unmatched) = 1

(* C4: kind of outcome and returned mapping are the same for every order   *)
(* of the same six files (each order is compared with the pool order).     *)
C4_OrderIndependentIdentification ==
    JustIdentified =>
        LET r == select_skybox_files(Canonical(file_paths))
        IN  /\ r.kind = ident.kind
            /\ MappingOf(r.files) = MappingOf(files)

C4_Witness ==
    /\ JustIdentified
    /\ ident.kind = "duplicate"
    /\ file_paths # Canonical(file_paths)
    /\ \E i \in 1..6 : ClaimedSlot(file_paths[i]) = "none"

-----------------------------------------------------------------------------
(* Properties of the stitched atlas *)

\* the canvas of this run exists
Composed == final_image # NoCanvas

\* the target slot whose grid cell is (column, row), "none" for the six others
SlotOfCell(column, row) ==
    CASE column = 1 /\ row = 0 -> "up"
      [] column = 0 /\ row = 1 -> "left"
      [] column = 1 /\ row = 1 -> "front"
      [] column = 2 /\ row = 1 -> "right"
      [] column = 3 /\ row = 1 -> "back"
      [] column = 1 /\ row = 2 -> "down"
      [] OTHER -> "none"

\* the picture of the file identified as face
PictureOf(face) == FileOfFace(files, face)

(* C5: every pixel of the cell of a target slot shows the face placed in   *)
(* that slot and every pixel of the six other cells is transparent.        *)
C5_FacesInTheirCells ==
    Composed =>
        \A p \in DOMAIN final_image.px :
            LET slot == SlotOfCell(p[1] \div base_size, p[2] \div base_size)
            IN  IF slot = "none"
                THEN final_image.px[p] = 0
                ELSE final_image.px[p] = PictureOf(DEFAULT_TRANSFORMS(slot).source)

(* C6: the atlas is 4N wide and 3N high, N being the width of the picture  *)
(* in the first file of the selection, whatever the other five sizes.      *)
C6_AtlasIs4Nby3N ==
    Composed =>
        LET N == native[file_paths[1]][1]
        IN  final_image.size = <<4 * N, 3 * N>>

C6_Witness ==
    /\ success
    /\ atlas_file = "complete"
    /\ \E i \in 2..6 : native[file_paths[i]] # native[file_paths[1]]
    /\ native[file_paths[1]][1] # native[file_paths[1]][2]

(* C7: every buffer handed to paste is base_size wide and base_size high.  *)
C7_PastedBuffersAreSquare ==
    \A i \in 1..Len(pasted) : pasted[i].size = <<base_size, base_size>>

(* C8: the atlas of a run equals the atlas obtained from the same files    *)
(* selected in pool order: same base size, same canvas, same pixels.       *)
C8_AtlasIndependentOfOrder ==
    Composed =>
        LET fs == select_skybox_files(Canonical(file_paths)).files
        IN  /\ base_size = BaseSizeOf(fs)
            /\ final_image = Compose(LoadedImages(fs), BaseSizeOf(fs))

-----------------------------------------------------------------------------
(* Files written by a run of skybox_gui_old.py *)

NothingWritten ==
    /\ atlas_file = "absent"
    /\ \A k \in DOMAIN vmat_files : vmat_files[k] = "absent"

\* the run failed in select_skybox_files
IdentificationFailed == ident.kind \notin {"none", "ok"}

\* the run failed while loading or before the canvas was complete
LoadFailed == ~success /\ message \in {"import_error", "error"} /\ ~Composed

(* C9, for main of skybox_gui_old.py: a .vmat file exists only when the    *)
(* atlas was written completely before.                                    *)
C9_Old_VmatOnlyAfterAtlas ==
    (\E k \in DOMAIN vmat_files : vmat_files[k] # "absent")
        => atlas_file = "complete" /\ success

(* C10: a run failing in identification or while loading writes no file    *)
(* and a failed identification never reaches stitching; the atlas is       *)
(* written only after all six faces were loaded and pasted.                *)
C10_EarlyFailureWritesNothing ==
    /\ IdentificationFailed =>
          /\ NothingWritten
          /\ pc = "exit"
          /\ images = NoImages /\ ~Composed /\ message = "none"
    /\ LoadFailed => NothingWritten
    /\ atlas_file # "absent" =>
          /\ DOMAIN images = Faces
          /\ Len(pasted) = 6
          /\ Composed

C10_Witness ==
    /\ pc = "exit"
    /\ LoadFailed
    /\ create_skybox /\ create_moondome
    /\ exit_code = 1

-----------------------------------------------------------------------------
(* C9: a .vmat file is in the destination only if the atlas of the same    *)
(* run was written there before: next to output_path in skybox_gui_old.py, *)
(* in the output directory in skybox_gui.py.                               *)
C9_VmatOnlyAfterAtlas ==
    /\ (\E k \in DOMAIN vmat_files : vmat_files[k] # "absent")
          => atlas_file = "complete"
    /\ \A v \in dest_files :
          v.kind # "png" =>
              \E a \in dest_files :
                  a.kind = "png" /\ a.run = v.run /\ a.dir = v.dir

-----------------------------------------------------------------------------
(* C11: at most one run_conversion_thread is alive at any time, and while   *)
(* one is alive conversion_in_progress is true.                             *)
C11_AtMostOneWorker ==
    /\ threads <= 1
    /\ threads = 1 <=> worker # "none"
    /\ worker # "none" => conversion_in_progress

\* a worker is in flight and the user has changed the selection meanwhile
C11_Witness ==
    /\ threads = 1
    /\ worker = "collect"
    /\ conversion_in_progress
    /\ skybox_files # env.files

(* C12: every conversion that is started ends, also when the converter      *)
(* process never returns.                                                   *)
C12_EveryRunEnds == conversion_in_progress ~> ~conversion_in_progress

(* C13: no step replaces an atlas that is in the output directory; the     *)
(* tool has no overwrite decision that could allow it.                     *)
C13_NoImplicitOverwrite ==
    [][\A f \in dest_files : f.kind = "png" => f \in dest_files']_vars

-----------------------------------------------------------------------------
WriteRaised == \E k \in DOMAIN vmat_files : vmat_files[k] \in {"partial", "failed"}

-----------------------------------------------------------------------------
(* C16: every descriptor that was written completely lies beside the      *)
(* atlas, carries the atlas base name in its file name and holds the       *)
(* reference "materials/skybox/<atlas file name>" of the atlas of this     *)
(* run; for the atlas skybox_cross.png the sky descriptor is               *)
(* skybox_skybox_cross.vmat and holds the text skybox_cross.png.           *)
C16_DescriptorReferencesAtlas ==
    \A k \in DOMAIN vmat_files :
        vmat_files[k] = "complete" =>
            LET atlas_name == basename(output_path)
                d          == vmat_text[k]
            IN  /\ atlas_file = "complete"
                /\ d.dir = dirname(output_path)
                /\ Contains(<<"m","a","t","e","r","i","a","l","s","/","s","k","y","b","o","x","/">> \o atlas_name, d.content)
                /\ Contains(splitext_root(atlas_name), d.name)
                /\ endswith(d.name, <<".","v","m","a","t">>)
                /\ atlas_name = <<"s","k","y","b","o","x","_","c","r","o","s","s",".","p","n","g">> /\ k = "skybox" =>
                      /\ Contains(<<"s","k","y","b","o","x","_","c","r","o","s","s",".","p","n","g">>, d.content)
                      /\ d.name = <<"s","k","y","b","o","x","_","s","k","y","b","o","x","_","c","r","o","s","s",".","v","m","a","t">>

\* both descriptors were written for the atlas o/skybox_cross.png
C16_Witness ==
    /\ pc = "exit"
    /\ output_path = <<"o","/","s","k","y","b","o","x","_","c","r","o","s","s",".","p","n","g">>
    /\ \A k \in DOMAIN vmat_files : vmat_files[k] = "complete"
    /\ vmat_text["skybox"].name = <<"s","k","y","b","o","x","_","s","k","y","b","o","x","_","c","r","o","s","s",".","v","m","a","t">>

-----------------------------------------------------------------------------
(* C17: in a returned mapping every file stands under one slot only, the   *)
(* first slot of the slot order one of whose patterns occurs in the lower- *)
(* cased name, also when patterns of later slots occur in it; in the       *)
(* incomplete-set error the unmatched names are those of the files in      *)
(* whose names no pattern occurs, in the order of the selection; a slot    *)
(* reported as duplicate is the first matching slot of two of the files.   *)
C17_FirstMatchingSlotWins ==
    JustIdentified =>
        /\ ident.kind = "ok" =>
              \A i \in 1..Len(files) :
                  /\ MatchingSlots(files[i][2]) # {}
                  /\ files[i][1] = TARGET_SLOTS[Min(MatchingSlots(files[i][2]))]
                  /\ \A j \in 1..Len(files) : files[j][2] = files[i][2] => j = i
        /\ ident.kind = "incomplete" =>
              LET none == SelectSeq(file_paths, LAMBDA fp : MatchingSlots(fp) = {})
              IN  ident.unmatched = [i \in 1..Len(none) |-> basename(FilePool[none[i]])]
        /\ ident.kind = "duplicate" =>
              \E i, j \in 1..6 :
                  /\ i # j
                  /\ MatchingSlots(file_paths[i]) # {}
                  /\ MatchingSlots(file_paths[j]) # {}
                  /\ TARGET_SLOTS[Min(MatchingSlots(file_paths[i]))] = ident.face
                  /\ TARGET_SLOTS[Min(MatchingSlots(file_paths[j]))] = ident.face

\* the mapping holds a file in whose name patterns of two slots occur
C17_Witness ==
    /\ pc = "prefs"
    /\ ident.kind = "ok"
    /\ \E i \in 1..Len(files) : Cardinality(MatchingSlots(files[i][2])) > 1

\* an unmatched file was recorded
C17_WitnessUnmatched ==
    /\ JustIdentified
    /\ ident.kind = "incomplete"
    /\ Len(ident.unmatched) > 0

-----------------------------------------------------------------------------
\* the table as the claim gives it: <<target slot, source face>>
ConfiguredSources ==
    { <<"up", "up">>, <<"down", "down">>, <<"left", "back">>,
      <<"front", "right">>, <<"right", "front">>, <<"back", "left">> }

(* C18: in every run that pastes, the buffer pasted at the cell of target  *)
(* slot T holds the picture of the file identified as the source face the  *)
(* table gives for T, and the first pixel of that cell shows it.           *)
C18_CellsFollowTransformTable ==
    Len(pasted) # 0 =>
        /\ {pasted[i].slot : i \in 1..Len(pasted)} = Faces
        /\ \A i \in 1..Len(pasted) :
              \E ts \in ConfiguredSources :
                  /\ ts[1] = pasted[i].slot
                  /\ pasted[i].content = FileOfFace(files, ts[2])
                  /\ pasted[i].position = COORDS(ts[1], base_size)
                  /\ final_image.px[pasted[i].position] = FileOfFace(files, ts[2])

\* the cell of left was filled from the file identified as back
C18_Witness ==
    /\ Len(pasted) = 6
    /\ atlas_file = "complete"
    /\ \E i \in 1..6 :
          /\ pasted[i].slot = "left"
          /\ pasted[i].content = FileOfFace(files, "back")
          /\ pasted[i].content # FileOfFace(files, "left")

-----------------------------------------------------------------------------
\* the keys of the dict handed to stitch_skybox
KeysOf(fs) == {fs[i][1] : i \in 1..Len(fs)}

(* C19: stitch_skybox called with a dict whose keys are not exactly the    *)
(* six slots, all of whose files it could load, returns failure of the     *)
(* incomplete-face-set kind and leaves no atlas file.                      *)
C19_IncompleteMappingIsReported ==
    (pc = "vmat" /\ KeysOf(files) # Faces /\ images = LoadedImages(files)) =>
        /\ ~success
        /\ message = "incomplete"
        /\ atlas_file = "absent"

\* the fields of the checker
checker_fields == << last_check_time, update_available, latest_download_url,
                     latest_version, current_version, is_console_version >>

\* a check was started less than 150 seconds ago
CheckStartedRecently ==
    last_check_time # -1 /\ now - last_check_time < CHECK_INTERVAL

(* C20: a call of check_for_updates contacts the release server only when   *)
(* no check was started in the 150 seconds before it, or none ever was;     *)
(* a call held back by the throttle fetches nothing, leaves every field of  *)
(* the checker as it was and returns the stored update_available.           *)
C20_ThrottledCallIsSilent ==
    [][calls' = calls + 1 =>
         /\ fetches' # fetches => ~CheckStartedRecently
         /\ CheckStartedRecently =>
              /\ fetches' = fetches
              /\ checker_fields' = checker_fields
              /\ returned' = update_available]_vars

\* a second call 149 seconds after a check that found an update was held
\* back and returned the stored TRUE
C20_Witness ==
    /\ calls = 2
    /\ fetches = 1
    /\ now - last_check_time = 149
    /\ update_available
    /\ returned

\* the thread is between its start and its end, and not waiting for a
\* process that never ends
WorkerRunning == worker \in {"stage", "subprocess", "collect"}

(* C22: every conversion worker that is started ends with                  *)
(* conversion_in_progress false, by the success path and by every failure  *)
(* path, provided the converter process returns; the flag then stays false *)
(* until the next conversion is started.                                   *)
C22_FlagClearedWhenWorkerEnds ==
    /\ (conversion_in_progress /\ WorkerRunning)
          ~> (~conversion_in_progress \/ worker = "blocked")
    /\ [](worker = "none" => ~conversion_in_progress)

\* a conversion ended in the handler of lines 377-382 and the flag is down
C22_Witness ==
    /\ runs = 1
    /\ worker = "none"
    /\ status_message = "Error: Skybox conversion failed"
    /\ ~conversion_in_progress
    /\ ConvertButtonShown

(* C23: a run that ends in the success state has copied its atlas into the *)
(* output directory, and a run whose converter exits non-zero ends with    *)
(* conversion_completed false and an error status.                         *)
C23_SuccessMeansAtlasDelivered ==
    [][(worker = "collect" /\ worker' = "none") =>
         /\ (conversion_completed'
               /\ status_message' = "Conversion completed successfully!")
              => \E f \in dest_files' : f.kind = "png" /\ f.run = runs'
         /\ returncode # 0 =>
              /\ ~conversion_completed'
              /\ status_message' = "Error: Skybox conversion failed"]_vars

(* C24: once the worker has ended, the staging directory it made is gone.  *)
C24_StagingDirectoryRemoved == worker = "none" => ~temp_dir.exists

(* C25: current_theme is a key of THEMES after construction and after any  *)
(* calls of check_for_updates, whatever the settings file holds.           *)
C25_CurrentThemeIsKnown == current_theme \in THEMES

\* the file names a theme that does not exist; it was loaded and the theme
\* chosen before was kept
C25_Witness ==
    /\ settings_file.exists
    /\ settings_file.content = "system"
    /\ last_mtime = settings_file.mtime
    /\ theme_calls > 0
    /\ theme_changed
    /\ current_theme = "dracula"

(* C26: a call of check_for_updates that follows another call, with no     *)
(* write or removal of the settings file in between, returns False.        *)
C26_ChangeReportedOnce ==
    [][(theme_calls > 0 /\ theme_calls' = theme_calls + 1 /\ ~settings_touched)
          => ~theme_changed']_vars

(* C27: after every call of check_for_updates the value returned is the    *)
(* update_available field; the field is true only if the check performed   *)
(* last found a newer release with an asset of the running build type, and *)
(* a check that finds none leaves it false.                                *)
C27_ReturnedIsUpdateAvailable ==
    [][calls' = calls + 1 =>
         /\ returned' = update_available'
         /\ update_available' => release_found'
         /\ (fetches' # fetches /\ ~release_found') => ~update_available']_vars

(* C28: the launcher starts the viewer only if it obtained the remote      *)
(* version and either that version equals the local one or                 *)
(* download_and_install returned True; with an unknown remote version or a *)
(* failed update it exits with status 1 and starts nothing; it exits with  *)
(* status 0 only after it started the viewer.                              *)
C28_LaunchOnlyWhenCurrent ==
    /\ app_launched =>
          /\ remote_version # <<>>
          /\ remote_version = local_version \/ installed = "True"
    /\ (aul_pc = "exited" /\ (remote_version = <<>> \/ installed = "False")) =>
          aul_exit = 1 /\ ~app_launched
    /\ aul_exit = 0 => app_launched
    /\ aul_pc = "exited" <=> aul_exit \in {0, 1}

\* the installed viewer is the build of the remote commit: nothing was
\* downloaded, the viewer was started and the launcher exited with 0
C28_Witness ==
    /\ aul_pc = "exited"
    /\ remote_version = local_version
    /\ installed = "none"
    /\ app_launched
    /\ aul_exit = 0

\* the update failed: the launcher exited with 1 and started nothing, though
\* the old executable is still there
C28_WitnessFailedUpdate ==
    /\ aul_pc = "exited"
    /\ installed = "False"
    /\ app_executable.exists
    /\ ~app_launched
    /\ aul_exit = 1

\* what a call of cleanup_preview_cache that changes the directory from
\* before to after must have done
CacheTrimmed(before, after, args) ==
    LET target == IF args.make_room_for_new
                  THEN args.max_files - 1 ELSE args.max_files
    IN  /\ Cardinality(CacheFiles(after.entries)) <= target
        /\ after.entries \subseteq before.entries
        /\ \A gone \in before.entries \ after.entries :
              /\ gone.kind = "file"
              /\ \A kept \in CacheFiles(after.entries) : gone.mtime <= kept.mtime
        /\ Cardinality(CacheFiles(before.entries)) <= target => after = before

====
